---- MODULE Spec2Model ----
(***************************************************************************)
(* Model of pytorch_forecasting/data.py: the windowed time-series dataset  *)
(* (TimeSeriesDataSet): construction (sorting, encoding, scaling, index    *)
(* construction, tensor store) and the item accessor __getitem__.          *)
(*                                                                         *)
(* The input table has one row per (group, time) cell.  The model uses the *)
(* column layout of examples/stallion.py in miniature:                     *)
(*   categoricals = ["c"]            (time_varying_known_categoricals)     *)
(*   reals        = ["x", "relative_time_idx", "y"]                        *)
(*   target       = "y"  (also a time_varying_unknown_real, as "volume")   *)
(*   weight       = None or "w"                                            *)
(* The table holds two series.                                             *)
(* Row positions (index_start, index_end) are 0-based as in the source;    *)
(* sequences are 1-based, so position p is element p + 1.                  *)
(***************************************************************************)
EXTENDS Integers, Sequences, FiniteSets, TLC

(* ------------------------------ bounds --------------------------------- *)
MaxTime == 3
MaxRows == 4
MaxEnc == 2
MaxPred == 2
MaxLabels == 2

(* --------------------------- small helpers ----------------------------- *)
Min2(a, b) == IF a <= b THEN a ELSE b
Max2(a, b) == IF a >= b THEN a ELSE b
Abs(a) == IF a < 0 THEN -a ELSE a

RECURSIVE Gcd(_, _)
Gcd(a, b) == IF b = 0 THEN a ELSE Gcd(b, a % b)

\* python: list.index(name), 0-based
ListIndex(list, name) == (CHOOSE i \in 1..Len(list) : list[i] = name) - 1

InList(list, name) == \E i \in 1..Len(list) : list[i] = name

\* the sequence <<f(1), ..., f(n)>>
SeqOf(n, f(_)) ==
    LET RECURSIVE build(_)
        build(i) == IF i > n THEN <<>> ELSE <<f(i)>> \o build(i + 1)
    IN  build(1)

\* python: seq[lo:hi] with 0 <= lo, hi (0-based, hi exclusive, clipped to the length)
Slice(seq, lo, hi) == SubSeq(seq, lo + 1, Min2(hi, Len(seq)))

\* a float32 cell of the continuous tensor: the number num / (den * sqrt(rad))
Flt(k) == [num |-> k, den |-> 1, rad |-> 1]

\* torch: a / b for an integer a and an integer b (b = 0 gives +-inf or nan)
Div(a, b) ==
    IF b = 0 THEN [num |-> (IF a > 0 THEN 1 ELSE IF a < 0 THEN -1 ELSE 0), den |-> 0, rad |-> 1]
    ELSE LET g == Gcd(Abs(a), Abs(b))
             s == IF b < 0 THEN -1 ELSE 1
         IN  [num |-> s * (a \div g), den |-> s * (b \div g), rad |-> 1]

(* --------------------------- the input table --------------------------- *)
Groups == {1, 2}
Times  == 0..MaxTime
Cells  == Groups \X Times

\* the values of the columns of the row of series g at time t
RawC(g, t) == IF (g + t) % 2 = 0 THEN "a" ELSE "b"
RawX(g, t) == t * t + g
RawY(g, t) == 10 * g + t
RawW(g, t) == g + 1

\* A row of the table is given by its key <<g, t>>.  A table may hold a second row with
\* the key of another one: <<g, t, "appended">> is such a row with an index label of its
\* own, <<g, t, "relabelled">> one that also carries the index label of the first.
IsCopy(cell) == Len(cell) = 3

\* the position of the row in the DataFrame: the copies come after the other rows
Position(cell) ==
    cell[1] * (MaxTime + 1) + cell[2] + (IF IsCopy(cell) THEN (Cardinality(Groups) + 1) * (MaxTime + 1) ELSE 0)

\* the index label of the row
IndexLabel(cell) ==
    IF IsCopy(cell) /\ cell[3] = "appended" THEN Position(cell) ELSE cell[1] * (MaxTime + 1) + cell[2]

RowOf(cell) ==
    [pos |-> Position(cell), id |-> IndexLabel(cell), g |-> cell[1], t |-> cell[2],
     c |-> RawC(cell[1], cell[2]), x |-> RawX(cell[1], cell[2]),
     y |-> RawY(cell[1], cell[2]), w |-> RawW(cell[1], cell[2])]

\* the rows of the table with the (group, time_idx) keys `keys`
Rows(keys) == {RowOf(cell) : cell \in keys}

\* tables with unique (group, time_idx) keys and at most n rows, given by their keys
TablesUpTo(n) == {s \in SUBSET Cells : s # {} /\ Cardinality(s) <= n}

Tables == TablesUpTo(MaxRows)

\* the tables of the specifications that read windows
ReadTables == TablesUpTo(MaxRows - 1)

\* tables of at most two keys in which rows may have a second row with the same key
CopiesOf(s) == {<<cell[1], cell[2], how>> : cell \in s, how \in {"appended", "relabelled"}}
KeyTables == UNION {{s \cup copies : copies \in SUBSET CopiesOf(s)} : s \in TablesUpTo(2)}

(* ------------------------------ state ---------------------------------- *)
VARIABLES
    raw,                             \* the DataFrame handed to the constructor (its keys)
    pc,                              \* "new", "ready" (constructed)
    kw,                              \* the constructor's arguments (self.<name>)
    min_prediction_idx,              \* self.min_prediction_idx
    categoricals_encoders,           \* self.categoricals_encoders
    scalers,                         \* self.scalers
    encoded_constant_fill_strategy,  \* self.encoded_constant_fill_strategy
    data_index,                      \* self.data_index
    data,                            \* self.data after _data_to_tensor: [cont, cat]
    out,                             \* what the last __getitem__ call returned or raised
    batch,                           \* what the last fetch of the data loader returned or raised
    derived,                         \* what the last from_dataset call returned or raised
    encoder,                         \* a NaNLabelEncoder object on its own
    result,                          \* what the last call of a method of `encoder` returned or raised
    workers,                         \* the __getitem__ call in progress in every worker thread
    defaults,                        \* the default argument objects of TimeSeriesDataSet.__init__
    second,                          \* the dataset of a second call of the constructor
    overwrite_values,                \* the overwrite set by set_overwrite_values, or none
    control                          \* the batch read before any overwrite was set

vars == <<raw, pc, kw, min_prediction_idx, categoricals_encoders, scalers,
          encoded_constant_fill_strategy, data_index, data, out, batch, derived, encoder, result,
          workers, defaults, second, overwrite_values, control>>

(* ------------------------- column configuration ------------------------ *)
\* A call of the constructor either names its columns (the categorical "c", the reals
\* "x" and "y") or leaves every column list at its default []; of the latter call the
\* arguments keep the list object that time_varying_known_reals is bound to.
DefaultLists(k) == "time_varying_known_reals" \in DOMAIN k

categoricals(k) == IF DefaultLists(k) THEN <<>> ELSE <<"c">>

reals(k) ==
    IF DefaultLists(k) THEN k.time_varying_known_reals
    ELSE IF k.add_relative_time_idx THEN <<"x", "relative_time_idx", "y">> ELSE <<"x", "y">>

(* ------------------------------ encoders ------------------------------- *)
\* order of the category labels ("nan" sorts after them)
LabelRank(s) == CASE s = "a" -> 1 [] s = "b" -> 2 [] s = "nan" -> 3

RECURSIVE SortedLabels(_)
SortedLabels(S) ==
    IF S = {} THEN <<>>
    ELSE LET m == CHOOSE v \in S : \A o \in S : LabelRank(v) <= LabelRank(o)
         IN  <<m>> \o SortedLabels(S \ {m})

\* NaNLabelEncoder(add_nan).fit(y): the sorted classes, with "nan" forced to code 0
NaNLabelEncoder_fit(add_nan, y) ==
    [add_nan  |-> add_nan,
     classes_ |-> IF add_nan THEN <<"nan">> \o SortedLabels(y \ {"nan"}) ELSE SortedLabels(y)]

\* LabelEncoder.transform of one label; -1 stands for the ValueError of an unseen label
NaNLabelEncoder_transform(enc, v) ==
    IF InList(enc.classes_, v) THEN ListIndex(enc.classes_, v) ELSE -1

\* a missing value (float nan) in a column of labels
Missing == "<missing>"

\* the labels of the columns handed to an encoder on its own
Labels == {"a", "b", "nan"}

\* LabelEncoder.transform(y) of a column: the codes, or the ValueError of sklearn for a
\* column with a label that is not among classes_; encode_nans changes nothing, as its
\* test isinstance(y, pd.CategoricalDtype) is false for every column
NaNLabelEncoder_transform_column(enc, y) ==
    LET code(i) == NaNLabelEncoder_transform(enc, y[i])
        codes == SeqOf(Len(y), code)
    IN  IF ~enc.fitted THEN [status |-> "NotFittedError"]
        ELSE IF \E i \in 1..Len(y) : codes[i] = -1 THEN [status |-> "ValueError"]
        ELSE [status |-> "ok", value |-> codes]

\* the inverse looking the codes up one position late
NaNLabelEncoder_inverse_transform_shifted(enc, codes) ==
    LET label(i) == enc.classes_[((codes[i] + 1) % Len(enc.classes_)) + 1]
    IN  IF ~enc.fitted THEN [status |-> "NotFittedError"]
        ELSE IF \E i \in 1..Len(codes) : codes[i] \notin 0..(Len(enc.classes_) - 1)
        THEN [status |-> "ValueError"]
        ELSE [status |-> "ok", value |-> SeqOf(Len(codes), label)]

\* LabelEncoder.inverse_transform(y): classes_[y], or the ValueError for a code out of range
NaNLabelEncoder_inverse_transform(enc, codes) ==
    LET label(i) == enc.classes_[codes[i] + 1]
    IN  IF ~enc.fitted THEN [status |-> "NotFittedError"]
        ELSE IF \E i \in 1..Len(codes) : codes[i] \notin 0..(Len(enc.classes_) - 1)
        THEN [status |-> "ValueError"]
        ELSE [status |-> "ok", value |-> SeqOf(Len(codes), label)]

(* ------------------------------ scalers -------------------------------- *)
RECURSIVE SumSeq(_)
SumSeq(col) == IF col = <<>> THEN 0 ELSE Head(col) + SumSeq(Tail(col))

\* StandardScaler().fit(column): the count, the sum and the sum of squares of the
\* column, from which mean_ = s / n and scale_ = sqrt(n * q - s * s) / n
StandardScaler_fit(col) ==
    LET sq(i) == col[i] * col[i]
    IN  [n |-> Len(col), s |-> SumSeq(col), q |-> SumSeq(SeqOf(Len(col), sq))]

\* StandardScaler.transform(v) = (v - mean_) / scale_ ; scale_ is 1 for zero variance
StandardScaler_transform(sc, v) ==
    LET var == sc.n * sc.q - sc.s * sc.s
    IN  IF var = 0 THEN Div(sc.n * v - sc.s, sc.n)
        ELSE [num |-> sc.n * v - sc.s, den |-> 1, rad |-> var]

(* ----------------------------- sort_values ----------------------------- *)
\* the order of the sort: by group and time index, rows with equal keys in the order
\* of the DataFrame (the sort by several columns is stable)
Before(a, b) == a.g < b.g \/ (a.g = b.g /\ a.t < b.t) \/ (a.g = b.g /\ a.t = b.t /\ a.pos < b.pos)

\* data.index.is_unique
index_is_unique(rows) == \A a, b \in rows : a.id = b.id => a = b

\* data.sort_values(group_ids + [time_idx])
RECURSIVE sort_values(_)
sort_values(rows) ==
    IF rows = {} THEN <<>>
    ELSE LET m == CHOOSE r \in rows : \A o \in rows \ {r} : Before(r, o)
         IN  <<m>> \o sort_values(rows \ {m})

(* --------------------------- construct_index --------------------------- *)
\* position (1-based) of the first / last row of the group of row i of the sorted table
GroupFirst(df, i) == CHOOSE j \in 1..Len(df) : df[j].g = df[i].g /\ \A l \in 1..(j - 1) : df[l].g # df[i].g
GroupLast(df, i)  == CHOOSE j \in 1..Len(df) : df[j].g = df[i].g /\ \A l \in (j + 1)..Len(df) : df[l].g # df[i].g

\* the columns of df_index before index_end is known (one record per row of the table)
df_index_rows(df) ==
    LET row(i) ==
            [time_first        |-> df[GroupFirst(df, i)].t,
             time_last         |-> df[GroupLast(df, i)].t,
             time_diff_to_next |-> IF i < Len(df) /\ df[i + 1].g = df[i].g THEN df[i + 1].t - df[i].t ELSE 1,
             index_start       |-> i - 1,
             time              |-> df[i].t,
             count             |-> df[GroupLast(df, i)].t - df[GroupFirst(df, i)].t + 1,
             group_id          |-> Cardinality({df[j].g : j \in 1..Len(df)} \cap 0..(df[i].g - 1)),
             label             |-> df[i].id]
    IN  SeqOf(Len(df), row)

\* max_time: (time + max_encoder_length + max_prediction_length).clip(upper=count + time_first)
max_time(x, k) ==
    Min2(x.time + k.max_encoder_length + k.max_prediction_length, x.count + x.time_first)

RECURSIVE SeqMax(_)
SeqMax(s) == IF Len(s) = 1 THEN s[1] ELSE Max2(Head(s), SeqMax(Tail(s)))

\* the loop body with the comparison new_end_time + 1 >= max_time: the pointer stops one
\* row early
end_pointer_step_early(dfi, k, index_end) ==
    LET next(i) ==
            LET new_end_time == dfi[index_end[i] + 1].time + dfi[index_end[i] + 1].time_diff_to_next
            IN  IF new_end_time + 1 >= max_time(dfi[i], k) THEN index_end[i] ELSE index_end[i] + 1
    IN  SeqOf(Len(dfi), next)

\* one pass of the loop body: every end pointer that may still advance moves one row on
end_pointer_step(dfi, k, index_end) ==
    LET next(i) ==
            LET new_end_time == dfi[index_end[i] + 1].time + dfi[index_end[i] + 1].time_diff_to_next
            IN  IF new_end_time + 1 > max_time(dfi[i], k) THEN index_end[i] ELSE index_end[i] + 1
    IN  SeqOf(Len(dfi), next)

RECURSIVE end_pointer_loop(_, _, _, _)
end_pointer_loop(dfi, k, index_end, n) ==
    IF n = 0 THEN index_end ELSE end_pointer_loop(dfi, k, end_pointer_step(dfi, k, index_end), n - 1)

\* the loop run for the count of the first row's series only
index_end_iterative_first_count(dfi, k) ==
    LET start(i) == dfi[i].index_start
    IN  end_pointer_loop(dfi, k, SeqOf(Len(dfi), start), dfi[1].count)

\* the branch taken when some time_diff_to_next differs from 1
index_end_iterative(dfi, k) ==
    LET start(i) == dfi[i].index_start
        count(i) == dfi[i].count
    IN  end_pointer_loop(dfi, k, SeqOf(Len(dfi), start), SeqMax(SeqOf(Len(dfi), count)))

\* the branch taken when there are no missing timesteps
index_end_direct(dfi, k) ==
    LET end(i) == dfi[i].index_start + (max_time(dfi[i], k) - dfi[i].time - 1)
    IN  SeqOf(Len(dfi), end)

has_missing_timesteps(dfi) == \E i \in 1..Len(dfi) : dfi[i].time_diff_to_next # 1

\* sequence_length taken as the number of rows instead of the time span
with_index_end_row_count(dfi, index_end) ==
    LET row(i) ==
            [time_first |-> dfi[i].time_first, time_last |-> dfi[i].time_last,
             time_diff_to_next |-> dfi[i].time_diff_to_next, index_start |-> dfi[i].index_start,
             time |-> dfi[i].time, count |-> dfi[i].count, group_id |-> dfi[i].group_id,
             label |-> dfi[i].label,
             index_end |-> index_end[i],
             sequence_length |-> index_end[i] - dfi[i].index_start + 1]
    IN  SeqOf(Len(dfi), row)

\* df_index with the columns index_end and sequence_length, before filtering
with_index_end(dfi, index_end) ==
    LET row(i) ==
            [time_first |-> dfi[i].time_first, time_last |-> dfi[i].time_last,
             time_diff_to_next |-> dfi[i].time_diff_to_next, index_start |-> dfi[i].index_start,
             time |-> dfi[i].time, count |-> dfi[i].count, group_id |-> dfi[i].group_id,
             label |-> dfi[i].label,
             index_end |-> index_end[i],
             sequence_length |-> dfi[index_end[i] + 1].time - dfi[i].time + 1]
    IN  SeqOf(Len(dfi), row)

index_end_of(dfi, k) ==
    IF has_missing_timesteps(dfi) THEN index_end_iterative(dfi, k) ELSE index_end_direct(dfi, k)

df_index_from(dfi, k) == with_index_end(dfi, index_end_of(dfi, k))

df_index_full(df, k) == df_index_from(df_index_rows(df), k)

\* predict mode without the filter on the span to the end of the series
predict_filter_any_span(k, x) ==
    x.sequence_length >= k.min_prediction_length + k.min_encoder_length

\* the row filter of predict mode
predict_filter(k, x) ==
    /\ x.time_last - x.time + 1 <= k.max_prediction_length + k.max_encoder_length
    /\ x.sequence_length >= k.min_prediction_length + k.min_encoder_length

\* the row filter of training mode
train_filter(k, mpi, x) ==
    /\ x.sequence_length >= k.min_prediction_length + k.min_encoder_length
    /\ x.sequence_length + x.time >= mpi - 1 + k.min_prediction_length

\* groupby("group_id").sequence_length.idxmax(): the first row of the group with the largest value
is_idxmax(rows, i) ==
    \A j \in 1..Len(rows) :
        rows[j].group_id = rows[i].group_id =>
            \/ rows[j].sequence_length < rows[i].sequence_length
            \/ (rows[j].sequence_length = rows[i].sequence_length /\ j >= i)

RECURSIVE SelectPositions(_, _, _)
SelectPositions(s, keep, i) ==
    IF i > Len(s) THEN <<>>
    ELSE (IF i \in keep THEN <<s[i]>> ELSE <<>>) \o SelectPositions(s, keep, i + 1)

\* the filters and, in predict mode, the choice of the longest sequence of every group
filter_index(full, k, mpi, predict_mode) ==
    IF predict_mode
    THEN LET kept == SelectPositions(full, {i \in 1..Len(full) : predict_filter(k, full[i])}, 1)
         IN  SelectPositions(kept, {i \in 1..Len(kept) : is_idxmax(kept, i)}, 1)
    ELSE SelectPositions(full, {i \in 1..Len(full) : train_filter(k, mpi, full[i])}, 1)

construct_index(df, k, mpi, predict_mode) == filter_index(df_index_full(df, k), k, mpi, predict_mode)

(* ----------------------------- construction ---------------------------- *)
Range(list) == {list[i] : i \in 1..Len(list)}

\* the value of column `name` in row r of the DataFrame before encoding and scaling
\* (relative_time_idx is the dummy 0.0 set by __init__)
RawCol(name, r) ==
    CASE name = "x" -> r.x
      [] name = "y" -> r.y
      [] name = "relative_time_idx" -> 0

\* self.min_prediction_idx = min_prediction_idx or data[self.time_idx].min()
\* (None and 0 are both falsy: the argument 0 stands for both)
resolve_min_prediction_idx(k, rows) ==
    IF k.min_prediction_idx # 0 THEN k.min_prediction_idx
    ELSE CHOOSE t \in {r.t : r \in rows} : \A r \in rows : t <= r.t

\* "encode categoricals": one fitted NaNLabelEncoder per categorical
fit_categoricals_encoders(k, df) ==
    [name \in Range(categoricals(k)) |->
        NaNLabelEncoder_fit(InList(k.dropout_categoricals, name), {df[i].c : i \in 1..Len(df)})]

\* "rescale continuous variables": one fitted StandardScaler per real
fit_scalers(k, df) ==
    [name \in Range(reals(k)) |->
        LET cell(i) == RawCol(name, df[i]) IN StandardScaler_fit(SeqOf(Len(df), cell))]

\* "encode constant values"
encode_constant_fill_strategy(k, encs, scs) ==
    [name \in DOMAIN k.constant_fill_strategy |->
        IF name \in DOMAIN scs THEN StandardScaler_transform(scs[name], k.constant_fill_strategy[name])
        ELSE IF name \in DOMAIN encs THEN NaNLabelEncoder_transform(encs[name], k.constant_fill_strategy[name])
        ELSE k.constant_fill_strategy[name]]

\* _data_to_tensor: categorical = categoricals + [__time_idx__],
\* continuous = reals + [__target__] (+ [__weight__])
data_to_tensor(k, df, encs, scs) ==
    LET cat_cell(r, j)  == NaNLabelEncoder_transform(encs[categoricals(k)[j]], r.c)
        cont_cell(r, j) == StandardScaler_transform(scs[reals(k)[j]], RawCol(reals(k)[j], r))
        cat_row(i) ==
            LET cell(j) == cat_cell(df[i], j)
            IN  SeqOf(Len(categoricals(k)), cell) \o <<df[i].t>>
        cont_row(i) ==
            LET cell(j) == cont_cell(df[i], j)
            IN  SeqOf(Len(reals(k)), cell) \o <<Flt(df[i].y)>>
                    \o (IF k.weight # "None" THEN <<Flt(df[i].w)>> ELSE <<>>)
    IN  [cat |-> SeqOf(Len(df), cat_row), cont |-> SeqOf(Len(df), cont_row)]

NoOutput == [status |-> "none"]

\* NaNLabelEncoder(add_nan) before fit: no classes_ attribute yet
NaNLabelEncoder_new(add_nan) == [add_nan |-> add_nan, fitted |-> FALSE, classes_ |-> <<>>]

NoEncoder == NaNLabelEncoder_new(FALSE)

\* the worker threads of a data loader, none of them inside __getitem__
Workers == 1..2
NoWorkers == [w \in Workers |-> [pc |-> "idle"]]

\* the default arguments categoricals_encoders={}, scalers={} and
\* time_varying_known_reals=[] as they are when the module has been loaded
NoDefaults == [categoricals_encoders |-> <<>>, scalers |-> <<>>, time_varying_known_reals |-> <<>>]

\* the fields of the instance at the end of __init__
init_fields(k, df, mpi, encs, scs) ==
    [kw |-> k,
     min_prediction_idx |-> mpi,
     categoricals_encoders |-> encs,
     scalers |-> scs,
     encoded_constant_fill_strategy |-> encode_constant_fill_strategy(k, encs, scs),
     data_index |-> construct_index(df, k, mpi, k.predict_mode),
     data |-> data_to_tensor(k, df, encs, scs)]

init_sorted(k, df, mpi) ==
    init_fields(k, df, mpi, fit_categoricals_encoders(k, df), fit_scalers(k, df))

\* TimeSeriesDataSet.__init__(data=rows, **k)
TimeSeriesDataSet_init(rows, k) ==
    init_sorted(k, sort_values(rows), resolve_min_prediction_idx(k, rows))

Install(self) ==
    /\ kw' = self.kw
    /\ min_prediction_idx' = self.min_prediction_idx
    /\ categoricals_encoders' = self.categoricals_encoders
    /\ scalers' = self.scalers
    /\ encoded_constant_fill_strategy' = self.encoded_constant_fill_strategy
    /\ data_index' = self.data_index
    /\ data' = self.data

\* TimeSeriesDataSet(data, **k); a failing assertion of the constructor (lines 132 and
\* 155) leaves no dataset
Construct(k) ==
    /\ pc = "new"
    /\ k.min_prediction_length > 0
    /\ index_is_unique(Rows(raw))
    /\ Install(TimeSeriesDataSet_init(Rows(raw), k))
    /\ pc' = "ready"
    /\ UNCHANGED <<raw, out, batch, derived, encoder, result,
                   workers, defaults, second, overwrite_values, control>>

(* ----------------------------- from_dataset ---------------------------- *)
\* the encoders after "encode categoricals" when a dictionary is handed in: only the
\* categoricals without an entry are fitted
update_categoricals_encoders(k, df, encs) ==
    [name \in Range(categoricals(k)) \cup DOMAIN encs |->
        IF name \in DOMAIN encs THEN encs[name] ELSE fit_categoricals_encoders(k, df)[name]]

\* the scalers after "rescale continuous variables" when a dictionary is handed in
update_scalers(k, df, scs) ==
    [name \in Range(reals(k)) \cup DOMAIN scs |->
        IF name \in DOMAIN scs THEN scs[name] ELSE fit_scalers(k, df)[name]]

\* LabelEncoder.transform raises ValueError for a label that the encoder was not fitted on
has_unseen_label(k, rows, encs) ==
    \E r \in rows : \E j \in 1..Len(categoricals(k)) :
        NaNLabelEncoder_transform(encs[categoricals(k)[j]], r.c) = -1

init_given(k, df, mpi, encs, scs) ==
    init_fields(k, df, mpi, update_categoricals_encoders(k, df, encs), update_scalers(k, df, scs))

\* TimeSeriesDataSet(rows, categoricals_encoders=encs, scalers=scs, **k): the new
\* instance, or the error raised
TimeSeriesDataSet_new(rows, k, encs, scs) ==
    IF ~(k.min_prediction_length > 0) \/ ~index_is_unique(rows) THEN [status |-> "AssertionError"]
    ELSE IF has_unseen_label(k, rows, update_categoricals_encoders(k, sort_values(rows), encs))
    THEN [status |-> "ValueError"]
    ELSE [status |-> "ok"]
             @@ init_given(k, sort_values(rows), resolve_min_prediction_idx(k, rows), encs, scs)

\* the derived dataset fitting its own encoders and scalers
from_dataset_refit(dataset, rows, stop_randomization, predict, update_kwargs) ==
    LET attrs   == [dataset.kw EXCEPT !.min_prediction_idx = dataset.min_prediction_idx]
        predict_kwargs == IF predict
                          THEN [attrs EXCEPT !.min_prediction_length = attrs.max_prediction_length,
                                             !.predict_mode = TRUE]
                          ELSE attrs
        kwargs  == IF stop_randomization THEN [predict_kwargs EXCEPT !.randomize_length = FALSE]
                   ELSE predict_kwargs
    IN  IF predict /\ ~stop_randomization THEN [status |-> "AssertionError"]
        ELSE TimeSeriesDataSet_new(rows, update_kwargs @@ kwargs, <<>>, <<>>)

\* TimeSeriesDataSet.from_dataset(dataset, rows, stop_randomization, predict,
\* **update_kwargs); the attributes of `dataset` are the arguments, min_prediction_idx
\* being the resolved value
from_dataset(dataset, rows, stop_randomization, predict, update_kwargs) ==
    LET attrs   == [dataset.kw EXCEPT !.min_prediction_idx = dataset.min_prediction_idx]
        predict_kwargs == IF predict
                          THEN [attrs EXCEPT !.min_prediction_length = attrs.max_prediction_length,
                                             !.predict_mode = TRUE]
                          ELSE attrs
        kwargs  == IF stop_randomization THEN [predict_kwargs EXCEPT !.randomize_length = FALSE]
                   ELSE predict_kwargs
    IN  IF predict /\ ~stop_randomization THEN [status |-> "AssertionError"]
        ELSE TimeSeriesDataSet_new(rows, update_kwargs @@ kwargs,
                                   dataset.categoricals_encoders, dataset.scalers)

\* the source dataset of a from_dataset call
Dataset ==
    [kw |-> kw, min_prediction_idx |-> min_prediction_idx,
     categoricals_encoders |-> categoricals_encoders, scalers |-> scalers,
     encoded_constant_fill_strategy |-> encoded_constant_fill_strategy,
     data_index |-> data_index, data |-> data]

\* derived = TimeSeriesDataSet.from_dataset(self, table, ...).  The dictionaries of the
\* encoders and the scalers of the new instance are the objects of the source.  A
\* behaviour derives one dataset.
FromDataset(table, stop_randomization, predict, update_kwargs) ==
    /\ pc = "ready"
    /\ derived = NoOutput
    /\ LET new == from_dataset(Dataset, Rows(table), stop_randomization, predict, update_kwargs)
       IN  /\ derived' = new @@ [call |-> [table |-> table, stop_randomization |-> stop_randomization,
                                           predict |-> predict, update_kwargs |-> update_kwargs]]
           /\ categoricals_encoders' =
                  IF new.status = "ok" THEN new.categoricals_encoders ELSE categoricals_encoders
           /\ scalers' = IF new.status = "ok" THEN new.scalers ELSE scalers
    /\ UNCHANGED <<raw, pc, kw, min_prediction_idx, encoded_constant_fill_strategy, data_index,
                   data, out, batch, encoder, result,
                   workers, defaults, second, overwrite_values, control>>

(* ------------------- the constructor with default arguments ------------ *)
\* The default values categoricals_encoders={}, scalers={} and time_varying_known_reals=[]
\* are objects made once, when the def statement runs; every call that leaves the
\* argument out is handed the same object.

\* self.time_varying_known_reals after "add time index relative to prediction position"
known_reals_appended(k, dflt) ==
    IF k.add_relative_time_idx /\ ~InList(dflt.time_varying_known_reals, "relative_time_idx")
    THEN Append(dflt.time_varying_known_reals, "relative_time_idx")
    ELSE dflt.time_varying_known_reals

\* TimeSeriesDataSet(rows, time_idx, target, group_ids, **k) with no dictionary of
\* encoders or scalers and no column list given, dflt being the default objects at the
\* call: the new instance and the default objects afterwards, or the error raised
\* (self.data[["relative_time_idx"]] is a KeyError when the column was not added)
TimeSeriesDataSet_defaults(rows, k, dflt) ==
    LET known == known_reals_appended(k, dflt)
        new   == TimeSeriesDataSet_new(rows, [time_varying_known_reals |-> known] @@ k,
                                       dflt.categoricals_encoders, dflt.scalers)
    IN  IF ~(k.min_prediction_length > 0) \/ ~index_is_unique(rows)
        THEN [status |-> "AssertionError", defaults |-> dflt]
        ELSE IF InList(known, "relative_time_idx") /\ ~k.add_relative_time_idx
        THEN [status |-> "KeyError", defaults |-> dflt]
        ELSE new @@ [defaults |-> [categoricals_encoders |-> new.categoricals_encoders,
                                   scalers |-> new.scalers,
                                   time_varying_known_reals |-> known]]

\* the first call in the process; a failing assertion leaves no dataset
ConstructDefaults(k) ==
    /\ pc = "new"
    /\ LET new == TimeSeriesDataSet_defaults(Rows(raw), k, defaults)
       IN  /\ new.status = "ok"
           /\ Install(new)
           /\ defaults' = new.defaults
    /\ pc' = "ready"
    /\ UNCHANGED <<raw, out, batch, derived, encoder, result, workers, second, overwrite_values, control>>

\* second = TimeSeriesDataSet(table, ..., **k), a later call in the same process.  The
\* dictionaries and the list of the first dataset are the default objects, so what the
\* call does to them shows in the first dataset.
ConstructSecond(table, k) ==
    /\ pc = "ready"
    /\ DefaultLists(kw)
    /\ second = NoOutput
    /\ LET new == TimeSeriesDataSet_defaults(Rows(table), k, defaults)
       IN  /\ second' = new @@ [call |-> [table |-> table, k |-> k]]
           /\ defaults' = new.defaults
           /\ categoricals_encoders' = new.defaults.categoricals_encoders
           /\ scalers' = new.defaults.scalers
           /\ kw' = [kw EXCEPT !.time_varying_known_reals = new.defaults.time_varying_known_reals]
    /\ UNCHANGED <<raw, pc, min_prediction_idx, encoded_constant_fill_strategy, data_index,
                   data, out, batch, derived, encoder, result, workers, overwrite_values, control>>

(* ------------------------------ __getitem__ ---------------------------- *)
Last(seq) == seq[Len(seq)]

\* the instance a method is called on
Self ==
    [kw |-> kw, min_prediction_idx |-> min_prediction_idx,
     encoded_constant_fill_strategy |-> encoded_constant_fill_strategy,
     data_index |-> data_index, data |-> data]

\* torch.repeat_interleave(torch.arange(len(repetitions)), repetitions), from element i on
RECURSIVE repeat_interleave(_, _)
repeat_interleave(repetitions, i) ==
    IF i > Len(repetitions) THEN <<>>
    ELSE LET same(j) == i - 1
         IN  SeqOf(repetitions[i], same) \o repeat_interleave(repetitions, i + 1)

\* A local tensor pair (data_cont, data_cat) of __getitem__.  view = TRUE: the rows
\* are a basic slice of the tensor store and share its memory, local row 0 being
\* row `base` of the store; view = FALSE: the rows are a copy (advanced indexing).
window_slice(self, index) ==
    [view |-> TRUE, base |-> index.index_start,
     cat  |-> Slice(self.data.cat, index.index_start, index.index_end + 1),
     cont |-> Slice(self.data.cont, index.index_start, index.index_end + 1)]

\* the gap filling with the constants written at every row
fill_rows_everywhere(self, win, indices) ==
    LET fill == self.encoded_constant_fill_strategy
        filled(j) == {name \in DOMAIN fill : ListIndex(reals(self.kw), name) = j - 1}
        cat_row(i)  == win.cat[indices[i] + 1]
        cont_row(i) ==
            LET src == win.cont[indices[i] + 1]
                cell(j) == IF filled(j) # {} THEN fill[CHOOSE name \in filled(j) : TRUE] ELSE src[j]
            IN  SeqOf(Len(src), cell)
    IN  [view |-> FALSE, base |-> 0,
         cat  |-> SeqOf(Len(indices), cat_row),
         cont |-> SeqOf(Len(indices), cont_row)]

\* "fill in missing values": the rows repeated over the gaps, the constants written
\* at the repeated positions
fill_rows(self, win, indices) ==
    LET fill == self.encoded_constant_fill_strategy
        repetition_indices(i) == i > 1 /\ indices[i] = indices[i - 1]
        filled(j) == {name \in DOMAIN fill : ListIndex(reals(self.kw), name) = j - 1}
        cat_row(i)  == win.cat[indices[i] + 1]
        cont_row(i) ==
            LET src == win.cont[indices[i] + 1]
                cell(j) == IF repetition_indices(i) /\ filled(j) # {}
                           THEN fill[CHOOSE name \in filled(j) : TRUE]
                           ELSE src[j]
            IN  SeqOf(Len(src), cell)
    IN  [view |-> FALSE, base |-> 0,
         cat  |-> SeqOf(Len(indices), cat_row),
         cont |-> SeqOf(Len(indices), cont_row)]

fill_missing(self, win) ==
    LET n == Len(win.cat)
        time_col == Len(win.cat[1])
        repetitions(i) == IF i < n THEN win.cat[i + 1][time_col] - win.cat[i][time_col] ELSE 1
    IN  fill_rows(self, win, repeat_interleave(SeqOf(n, repetitions), 1))

\* the truncation keeping the first rows of the window instead of those around the boundary
truncate_from_start(win, lo, hi) ==
    [view |-> win.view, base |-> win.base,
     cat  |-> Slice(win.cat, 0, hi - lo), cont |-> Slice(win.cont, 0, hi - lo)]

\* data_cat[lo:hi], data_cont[lo:hi]: a slice of a view is a view, of a copy a copy
truncate(win, lo, hi) ==
    [view |-> win.view, base |-> win.base + lo,
     cat  |-> Slice(win.cat, lo, hi), cont |-> Slice(win.cont, lo, hi)]

\* data_cat[:, cols] = 0 (cols are 0-based)
zero_columns(win, cols) ==
    LET cat_row(i) ==
            LET cell(j) == IF (j - 1) \in cols THEN 0 ELSE win.cat[i][j]
            IN  SeqOf(Len(win.cat[i]), cell)
    IN  [win EXCEPT !.cat = SeqOf(Len(win.cat), cat_row)]

\* the tensor store after the in-place writes to the local tensors: a view writes
\* through to rows base.. of the store (the categorical columns, and the first
\* len(cont[0]) continuous columns), a copy leaves the store alone
write_through(self, win, cont) ==
    IF ~win.view THEN self.data
    ELSE LET inside(i) == i - 1 >= win.base /\ i - 1 < win.base + Len(win.cat)
             cat_row(i)  == IF inside(i) THEN win.cat[i - win.base] ELSE self.data.cat[i]
             cont_row(i) ==
                 LET old == self.data.cont[i]
                     cell(j) == IF j <= Len(cont[i - win.base]) THEN cont[i - win.base][j] ELSE old[j]
                 IN  IF inside(i) THEN SeqOf(Len(old), cell) ELSE old
         IN  [cat  |-> SeqOf(Len(self.data.cat), cat_row),
              cont |-> SeqOf(Len(self.data.cont), cont_row)]

Raise(store, idx, line) ==
    [data |-> store, out |-> [status |-> "AssertionError", idx |-> idx, line |-> line]]

\* only the last column removed although a weight is configured
feature_columns_keep_target(self, ncols) == ncols - 1

\* data_cont[:, :-1] without a weight, data_cont[:, :-2] with one: the columns kept
feature_columns(self, ncols) == IF self.kw.weight = "None" THEN ncols - 1 ELSE ncols - 2

\* the split into target and features, the relative time index and the return value;
\* ref tells whether the returned tensors are views of the tensor store, and of which rows
getitem_return(self, idx, win, encoder_length, decoder_length) ==
    LET ncols == Len(win.cont[1])
        rel_col == ListIndex(reals(self.kw), "relative_time_idx") + 1
        cont_row(i) ==
            LET cell(j) == IF self.kw.add_relative_time_idx /\ j = rel_col
                           THEN Div(i - 1 - encoder_length, self.kw.max_encoder_length)
                           ELSE win.cont[i][j]
            IN  SeqOf(feature_columns(self, ncols), cell)
        data_cont == SeqOf(Len(win.cont), cont_row)
        \* with a weight, target = data_cont[:, :-2] is the same view as data_cont:
        \* a matrix, each entry of which is a row of cells
        tgt(i) == IF self.kw.weight = "None" THEN win.cont[i][ncols] ELSE [row |-> data_cont[i]]
        target == SeqOf(Len(win.cont), tgt)
        x_cat_row(i) == SubSeq(win.cat[i], 1, Len(win.cat[i]) - 1)
    IN  [data |-> write_through(self, win, data_cont),
         ref  |-> [view |-> win.view, base |-> win.base],
         out  |-> [status |-> "ok", idx |-> idx,
                   x_cat |-> SeqOf(Len(win.cat), x_cat_row),
                   x_cont |-> data_cont,
                   encoder_length |-> encoder_length,
                   encoder_target |-> Slice(target, 0, encoder_length),
                   target |-> Slice(target, encoder_length, Len(target))]]

\* the three assertions after the randomization
getitem_checked(self, idx, win, encoder_length, decoder_length) ==
    LET time_col == Len(win.cat[1])
        store == write_through(self, win, win.cont)
    IN  IF ~(decoder_length > 0) THEN Raise(store, idx, 362)
        ELSE IF ~(encoder_length >= 0) THEN Raise(store, idx, 363)
        ELSE IF ~(Last(win.cat)[time_col] - self.min_prediction_idx + 1 >= decoder_length)
             THEN Raise(store, idx, 364)
        ELSE getitem_return(self, idx, win, encoder_length, decoder_length)

\* "switch some variables to nan if encode length is 0"
getitem_dropout(self, idx, win, encoder_length, decoder_length) ==
    LET drop == self.kw.dropout_categoricals
        cols == {ListIndex(categoricals(self.kw), drop[i]) : i \in 1..Len(drop)}
    IN  getitem_checked(self, idx,
                        IF encoder_length = 0 /\ Len(drop) > 0 THEN zero_columns(win, cols) ELSE win,
                        encoder_length, decoder_length)

\* the randomization of the lengths; binom_enc and binom_dec are the two Binomial samples
getitem_randomize(self, idx, win, encoder_length, decoder_length, binom_enc, binom_dec) ==
    IF ~self.kw.randomize_length
    THEN getitem_checked(self, idx, win, encoder_length, decoder_length)
    ELSE IF binom_enc > encoder_length \/ binom_dec > decoder_length
    THEN [data |-> self.data, out |-> [status |-> "no such sample"]]
    ELSE LET new_encoder_length == binom_enc
             new_decoder_length == Max2(self.kw.min_prediction_length, binom_dec)
         IN  IF new_encoder_length + new_decoder_length < Len(win.cat)
             THEN getitem_dropout(self, idx,
                                  truncate(win, encoder_length - new_encoder_length,
                                           encoder_length + new_decoder_length),
                                  new_encoder_length, new_decoder_length)
             ELSE getitem_dropout(self, idx, win, encoder_length, decoder_length)

\* the decoder length counted from min_prediction_idx instead of min_prediction_idx - 1
decoder_length_of_late(self, win) ==
    Min2(Last(win.cat)[Len(win.cat[1])] - self.min_prediction_idx,
         Min2(self.kw.max_prediction_length, Len(win.cat)))

\* decoder_length = min(data_cat[-1, -1] - (min_prediction_idx - 1), max_prediction_length, sequence_length)
decoder_length_of(self, win) ==
    Min2(Last(win.cat)[Len(win.cat[1])] - (self.min_prediction_idx - 1),
         Min2(self.kw.max_prediction_length, Len(win.cat)))

\* "determine data window"
getitem_window(self, idx, win, decoder_length, binom_enc, binom_dec) ==
    IF ~(Len(win.cat) >= self.kw.min_prediction_length) THEN Raise(self.data, idx, 330)
    ELSE IF ~(decoder_length >= self.kw.min_prediction_length) THEN Raise(self.data, idx, 336)
    ELSE getitem_randomize(self, idx, win, Len(win.cat) - decoder_length, decoder_length,
                           binom_enc, binom_dec)

\* the rows of the slice alone, the missing time steps not filled in
reconstructed_unfilled(self, index) == window_slice(self, index)

\* the local tensors after the slicing and the gap filling
reconstructed(self, index) ==
    IF index.index_end + 1 - index.index_start < index.sequence_length
    THEN fill_missing(self, window_slice(self, index))
    ELSE window_slice(self, index)

getitem_filled(self, idx, win, binom_enc, binom_dec) ==
    getitem_window(self, idx, win, decoder_length_of(self, win), binom_enc, binom_dec)

\* self[idx]: the store afterwards and the value returned (or the error raised)
getitem(self, idx, binom_enc, binom_dec) ==
    getitem_filled(self, idx, reconstructed(self, self.data_index[idx + 1]), binom_enc, binom_dec)

\* a read of window idx; the Binomial samples are drawn when randomize_length is set
GetItem(idx, binom_enc, binom_dec) ==
    /\ pc = "ready"
    /\ idx < Len(data_index)
    /\ kw.randomize_length \/ (binom_enc = 0 /\ binom_dec = 0)
    /\ LET r == getitem(Self, idx, binom_enc, binom_dec)
       IN  /\ r.out.status # "no such sample"
           /\ data' = r.data
           /\ out' = r.out
    /\ UNCHANGED <<raw, pc, kw, min_prediction_idx, categoricals_encoders, scalers,
                   encoded_constant_fill_strategy, data_index, batch, derived, encoder, result,
                   workers, defaults, second, overwrite_values, control>>

(* ------------------------ _collate_fn, data loader --------------------- *)
\* An example as _collate_fn sees it.  The tensors of an example that are views of the
\* tensor store show the store as it is when the batch is collated (after the reads of
\* the later examples of the batch); copies (windows filled over gaps) stay as returned.
example_at_collate(self, store, item) ==
    IF ~item.ref.view THEN item.out
    ELSE LET base == item.ref.base
             cont_row(i) == SubSeq(store.cont[base + i], 1, Len(item.out.x_cont[1]))
             cat_row(i)  == SubSeq(store.cat[base + i], 1, Len(item.out.x_cat[1]))
             n == Len(item.out.x_cat)
             x_cont == SeqOf(n, cont_row)
             tgt(i) == [row |-> x_cont[i]]
             target == SeqOf(n, tgt)
         IN  IF self.kw.weight = "None"
             THEN [item.out EXCEPT !.x_cont = x_cont, !.x_cat = SeqOf(n, cat_row)]
             ELSE [item.out EXCEPT !.x_cont = x_cont, !.x_cat = SeqOf(n, cat_row),
                                   !.encoder_target = Slice(target, 0, item.out.encoder_length),
                                   !.target = Slice(target, item.out.encoder_length, n)]

\* the padding with the zeros in front of every sequence
pad_sequence_in_front(sequences, zero) ==
    LET len(i) == Len(sequences[i])
        max_len == SeqMax(<<0>> \o SeqOf(Len(sequences), len))
        zeros(i) == LET z(j) == zero IN SeqOf(max_len - Len(sequences[i]), z)
        padded(i) == zeros(i) \o sequences[i]
    IN  SeqOf(Len(sequences), padded)

\* rnn.pad_sequence(sequences, batch_first=True): zeros after the end of every sequence
\* up to the length of the longest one
pad_sequence(sequences, zero) ==
    LET len(i) == Len(sequences[i])
        max_len == SeqMax(<<0>> \o SeqOf(Len(sequences), len))
        zeros(i) == LET z(j) == zero IN SeqOf(max_len - Len(sequences[i]), z)
        padded(i) == sequences[i] \o zeros(i)
    IN  SeqOf(Len(sequences), padded)

\* the zero rows and the zero entry that pad_sequence appends
ZeroCont(k) == LET z(j) == Flt(0) IN SeqOf(Len(reals(k)), z)
ZeroCat(k)  == LET z(j) == 0 IN SeqOf(Len(categoricals(k)), z)
ZeroTarget(k) == IF k.weight = "None" THEN Flt(0) ELSE [row |-> ZeroCont(k)]

\* self._collate_fn(batches)
collate_fn(self, batches) ==
    LET k == self.kw
        n == Len(batches)
        encoder_length(i) == batches[i].encoder_length
        decoder_length(i) == Len(batches[i].target)
        enc_cont(i) == Slice(batches[i].x_cont, 0, batches[i].encoder_length)
        enc_cat(i)  == Slice(batches[i].x_cat, 0, batches[i].encoder_length)
        enc_tgt(i)  == batches[i].encoder_target
        dec_cont(i) == Slice(batches[i].x_cont, batches[i].encoder_length, Len(batches[i].x_cont))
        dec_cat(i)  == Slice(batches[i].x_cat, batches[i].encoder_length, Len(batches[i].x_cat))
        tgt(i)      == batches[i].target
    IN  [status |-> "ok",
         batches |-> batches,
         encoder_cat     |-> pad_sequence(SeqOf(n, enc_cat), ZeroCat(k)),
         encoder_cont    |-> pad_sequence(SeqOf(n, enc_cont), ZeroCont(k)),
         encoder_target  |-> pad_sequence(SeqOf(n, enc_tgt), ZeroTarget(k)),
         encoder_lengths |-> SeqOf(n, encoder_length),
         decoder_cat     |-> pad_sequence(SeqOf(n, dec_cat), ZeroCat(k)),
         decoder_cont    |-> pad_sequence(SeqOf(n, dec_cont), ZeroCont(k)),
         decoder_target  |-> pad_sequence(SeqOf(n, tgt), ZeroTarget(k)),
         decoder_lengths |-> SeqOf(n, decoder_length),
         target          |-> pad_sequence(SeqOf(n, tgt), ZeroTarget(k))]

\* [dataset[i] for i in indices]: the reads one after another on the same store; an
\* assertion error of a read ends the fetch
RECURSIVE fetch_items(_, _, _)
fetch_items(self, indices, items) ==
    IF indices = <<>> THEN [data |-> self.data, items |-> items, raised |-> FALSE]
    ELSE LET item == getitem(self, Head(indices), 0, 0)
         IN  IF item.out.status # "ok"
             THEN [data |-> item.data, items |-> items \o <<item>>, raised |-> TRUE]
             ELSE fetch_items([self EXCEPT !.data = item.data], Tail(indices), items \o <<item>>)

\* the batch of the examples read by a fetch
fetch_batch(self, fetched) ==
    LET example(i) == example_at_collate(self, fetched.data, fetched.items[i])
    IN  IF fetched.raised THEN [status |-> "AssertionError"]
        ELSE collate_fn(self, SeqOf(Len(fetched.items), example))

\* one step of the iterator of to_dataloader(): collate_fn([dataset[i] for i in indices]),
\* for a dataset without randomization (no Binomial samples are drawn)
Fetch(indices) ==
    /\ pc = "ready"
    /\ ~kw.randomize_length
    /\ \A i \in 1..Len(indices) : indices[i] < Len(data_index)
    /\ LET fetched == fetch_items(Self, indices, <<>>)
       IN  /\ data' = fetched.data
           /\ out' = Last(fetched.items).out
           /\ batch' = fetch_batch(Self, fetched)
    /\ UNCHANGED <<raw, pc, kw, min_prediction_idx, categoricals_encoders, scalers,
                   encoded_constant_fill_strategy, data_index, derived, encoder, result,
                   workers, defaults, second, overwrite_values, control>>

(* ----------------------- the encoder on its own ------------------------- *)
\* encoder.fit(y)
Fit(y) ==
    /\ pc = "encoder"
    /\ encoder' = [add_nan  |-> encoder.add_nan, fitted |-> TRUE,
                   classes_ |-> NaNLabelEncoder_fit(encoder.add_nan, {y[i] : i \in 1..Len(y)}).classes_]
    /\ result' = [op |-> "fit", arg |-> y, status |-> "ok"]
    /\ UNCHANGED <<raw, pc, kw, min_prediction_idx, categoricals_encoders, scalers,
                   encoded_constant_fill_strategy, data_index, data, out, batch, derived,
                   workers, defaults, second, overwrite_values, control>>

\* encoder.transform(y)
Transform(y) ==
    /\ pc = "encoder"
    /\ result' = [op |-> "transform", arg |-> y] @@ NaNLabelEncoder_transform_column(encoder, y)
    /\ UNCHANGED <<raw, pc, kw, min_prediction_idx, categoricals_encoders, scalers,
                   encoded_constant_fill_strategy, data_index, data, out, batch, derived, encoder,
                   workers, defaults, second, overwrite_values, control>>

\* encoder.inverse_transform(codes)
InverseTransform(codes) ==
    /\ pc = "encoder"
    /\ result' = [op |-> "inverse_transform", arg |-> codes]
                      @@ NaNLabelEncoder_inverse_transform(encoder, codes)
    /\ UNCHANGED <<raw, pc, kw, min_prediction_idx, categoricals_encoders, scalers,
                   encoded_constant_fill_strategy, data_index, data, out, batch, derived, encoder,
                   workers, defaults, second, overwrite_values, control>>

\* the encoder after encoder.fit(y)
NaNLabelEncoder_fitted(enc, y) ==
    [add_nan  |-> enc.add_nan, fitted |-> TRUE,
     classes_ |-> NaNLabelEncoder_fit(enc.add_nan, {y[i] : i \in 1..Len(y)}).classes_]

\* NaNLabelEncoder.fit_transform(y): with add_nan, fit(y) and transform(y); without,
\* LabelEncoder.transform(y) alone
NaNLabelEncoder_fit_transform(enc, y) ==
    IF enc.add_nan
    THEN [encoder |-> NaNLabelEncoder_fitted(enc, y),
          result  |-> NaNLabelEncoder_transform_column(NaNLabelEncoder_fitted(enc, y), y)]
    ELSE [encoder |-> enc, result |-> NaNLabelEncoder_transform_column(enc, y)]

\* encoder.fit_transform(y)
FitTransform(y) ==
    /\ pc = "encoder"
    /\ encoder' = NaNLabelEncoder_fit_transform(encoder, y).encoder
    /\ result' = [op |-> "fit_transform", arg |-> y, fresh |-> ~encoder.fitted]
                      @@ NaNLabelEncoder_fit_transform(encoder, y).result
    /\ UNCHANGED <<raw, pc, kw, min_prediction_idx, categoricals_encoders, scalers,
                   encoded_constant_fill_strategy, data_index, data, out, batch, derived,
                   workers, defaults, second, overwrite_values, control>>

\* columns of at most MaxLabels entries
ColumnsOver(S) == UNION {[1..n -> S] : n \in 1..MaxLabels}

InitEncoder ==
    /\ raw = {}
    /\ pc = "encoder"
    /\ kw = <<>>
    /\ min_prediction_idx = 0
    /\ categoricals_encoders = <<>>
    /\ scalers = <<>>
    /\ encoded_constant_fill_strategy = <<>>
    /\ data_index = <<>>
    /\ data = <<>>
    /\ out = NoOutput
    /\ batch = NoOutput
    /\ derived = NoOutput
    /\ encoder \in {NaNLabelEncoder_new(add_nan) : add_nan \in BOOLEAN}
    /\ result = NoOutput
    /\ workers = NoWorkers
    /\ defaults = NoDefaults
    /\ second = NoOutput
    /\ overwrite_values = NoOutput
    /\ control = NoOutput

NextEncoder ==
    \/ \E y \in ColumnsOver(Labels) : Fit(y)
    \/ \E y \in ColumnsOver(Labels \cup {Missing}) : Transform(y)
    \/ \E y \in ColumnsOver(Labels) : FitTransform(y)
    \/ \E codes \in ColumnsOver(0..Cardinality(Labels)) : InverseTransform(codes)

SpecEncoder == InitEncoder /\ [][NextEncoder]_vars

(* ----------------------- constructor arguments ------------------------- *)
\* arguments that decide the index; the other arguments at fixed values
AllKwIndex ==
    [max_encoder_length    : 0..MaxEnc,
     min_encoder_length    : 0..1,
     min_prediction_idx    : 0..MaxTime,
     min_prediction_length : 1..MaxPred,
     max_prediction_length : 1..MaxPred,
     predict_mode          : BOOLEAN,
     weight                : {"None"},
     dropout_categoricals  : {<<>>},
     add_relative_time_idx : {TRUE},
     constant_fill_strategy: {<<>>},
     randomize_length      : {FALSE}]

InitWith(tables) ==
    /\ raw \in tables
    /\ pc = "new"
    /\ kw = <<>>
    /\ min_prediction_idx = 0
    /\ categoricals_encoders = <<>>
    /\ scalers = <<>>
    /\ encoded_constant_fill_strategy = <<>>
    /\ data_index = <<>>
    /\ data = <<>>
    /\ out = NoOutput
    /\ batch = NoOutput
    /\ derived = NoOutput
    /\ encoder = NoEncoder
    /\ result = NoOutput
    /\ workers = NoWorkers
    /\ defaults = NoDefaults
    /\ second = NoOutput
    /\ overwrite_values = NoOutput
    /\ control = NoOutput

\* arguments with min_prediction_length <= max_prediction_length
Consistent(kwargs) == {k \in kwargs : k.min_prediction_length <= k.max_prediction_length}

KwIndex == Consistent(AllKwIndex)

Init == InitWith(Tables)

\* construction only: the specification of the claims about the index
NextIndex == \E k \in KwIndex : Construct(k)

SpecIndex == Init /\ [][NextIndex]_vars

\* the number of optional features an argument record switches on
Options(k) ==
    (IF k.weight # "None" THEN 1 ELSE 0) + (IF k.constant_fill_strategy # <<>> THEN 1 ELSE 0)
        + (IF k.add_relative_time_idx THEN 0 ELSE 1) + Len(k.dropout_categoricals)

\* arguments that differ from the defaults in at most one optional feature
OneOption(kwargs) == {k \in kwargs : Options(k) <= 1}

\* arguments of the item accessor without randomization
AllKwRead ==
    [max_encoder_length    : 1..MaxEnc,
     min_encoder_length    : {0},
     min_prediction_idx    : 0..1,
     min_prediction_length : {1},
     max_prediction_length : 1..MaxPred,
     predict_mode          : {FALSE},
     weight                : {"None", "w"},
     dropout_categoricals  : {<<>>},
     add_relative_time_idx : BOOLEAN,
     constant_fill_strategy: {<<>>, [x |-> 0]},
     randomize_length      : {FALSE}]

KwRead == OneOption(AllKwRead)

Windows == 0..(MaxRows - 2)
\* the values of the two Binomial samples: the encoder sample is at most the encoder
\* length (below max_encoder_length + max_prediction_length), the decoder sample at
\* most the decoder length (at most max_prediction_length)
EncoderSamples == 0..(MaxEnc + MaxPred - 1)
DecoderSamples == 0..MaxPred

Read ==
    \E idx \in Windows, binom_enc \in EncoderSamples, binom_dec \in DecoderSamples :
        GetItem(idx, binom_enc, binom_dec)

NextRead == (\E k \in KwRead : Construct(k)) \/ Read

InitRead == InitWith(ReadTables)

\* arguments of the item accessor with randomization of the lengths
AllKwRand ==
    [max_encoder_length    : {0, MaxEnc},
     min_encoder_length    : {0},
     min_prediction_idx    : 0..1,
     min_prediction_length : 1..MaxPred,
     max_prediction_length : 1..MaxPred,
     predict_mode          : {FALSE},
     weight                : {"None"},
     dropout_categoricals  : {<<>>, <<"c">>},
     add_relative_time_idx : BOOLEAN,
     constant_fill_strategy: {<<>>},
     randomize_length      : {TRUE}]

KwRand == OneOption(Consistent(AllKwRand))

NextRand == (\E k \in KwRand : Construct(k)) \/ Read

\* tables of the first series
RandTables == {s \in ReadTables : \A cell \in s : cell[1] = 1}

InitRand == InitWith(RandTables)

SpecRand == InitRand /\ [][NextRand]_vars

SpecRead == InitRead /\ [][NextRead]_vars

(* --------------------- worker threads sharing the dataset --------------- *)
\* A worker thread calls __getitem__ on the shared instance.  The interpreter runs one
\* thread at a time and may switch threads between any two statements, so a call is
\* three steps: the slicing and gap filling (the local tensors: views of the shared
\* tensor store, or a copy), the rest of the body with its in-place writes, and the use
\* of the returned tensors by the caller.

\* data_cat, data_cont = self.data[0][a:b], self.data[1][a:b] and the gap filling
SliceWindow(w, idx) ==
    /\ pc = "ready"
    /\ ~kw.randomize_length
    /\ idx < Len(data_index)
    /\ workers[w].pc = "idle"
    /\ \A v \in Workers \ {w} : IF workers[v].pc = "idle" THEN TRUE ELSE workers[v].idx # idx
    /\ workers' = [workers EXCEPT ![w] = [pc |-> "sliced", idx |-> idx,
                                           win |-> reconstructed(Self, data_index[idx + 1])]]
    /\ UNCHANGED <<raw, pc, kw, min_prediction_idx, categoricals_encoders, scalers,
                   encoded_constant_fill_strategy, data_index, data, out, batch, derived,
                   encoder, result, defaults, second, overwrite_values, control>>

\* the local tensors of a worker now: a view shows the store as it is, a copy is kept
local_tensors(self, worker) ==
    IF worker.win.view THEN window_slice(self, self.data_index[worker.idx + 1]) ELSE worker.win

\* the lengths, the assertions, the assignment of the relative time index, the return
Body(w) ==
    /\ workers[w].pc = "sliced"
    /\ LET r == getitem_filled(Self, workers[w].idx, local_tensors(Self, workers[w]), 0, 0)
       IN  /\ data' = r.data
           /\ workers' = [workers EXCEPT ![w] =
                              IF r.out.status = "ok"
                              THEN [pc |-> "returned", idx |-> workers[w].idx,
                                    item |-> [ref |-> r.ref, out |-> r.out]]
                              ELSE [pc |-> "done", idx |-> workers[w].idx, example |-> r.out]]
    /\ UNCHANGED <<raw, pc, kw, min_prediction_idx, categoricals_encoders, scalers,
                   encoded_constant_fill_strategy, data_index, out, batch, derived,
                   encoder, result, defaults, second, overwrite_values, control>>

\* the caller reads the tensors it was given
Obtain(w) ==
    /\ workers[w].pc = "returned"
    /\ workers' = [workers EXCEPT ![w] =
                       [pc |-> "done", idx |-> workers[w].idx,
                        example |-> example_at_collate(Self, data, workers[w].item)]]
    /\ UNCHANGED <<raw, pc, kw, min_prediction_idx, categoricals_encoders, scalers,
                   encoded_constant_fill_strategy, data_index, data, out, batch, derived,
                   encoder, result, defaults, second, overwrite_values, control>>

AllKwWorkers ==
    [max_encoder_length    : 1..MaxEnc,
     min_encoder_length    : {0},
     min_prediction_idx    : {0},
     min_prediction_length : {1},
     max_prediction_length : 1..MaxPred,
     predict_mode          : {FALSE},
     weight                : {"None"},
     dropout_categoricals  : {<<>>},
     add_relative_time_idx : BOOLEAN,
     constant_fill_strategy: {<<>>},
     randomize_length      : {FALSE}]

NextWorkers ==
    \/ \E k \in AllKwWorkers : Construct(k)
    \/ \E w \in Workers, idx \in Windows : SliceWindow(w, idx)
    \/ \E w \in Workers : Body(w)
    \/ \E w \in Workers : Obtain(w)

SpecWorkers == InitRand /\ [][NextWorkers]_vars

(* ======================= properties of the reads ======================= *)
\* the time index of store row p (0-based): the last categorical column
TimeAt(p) == Last(data.cat[p + 1])

\* the dataset as the constructor left it
Constructed == TimeSeriesDataSet_init(Rows(raw), kw)

\* C1: after construction no item-accessor read changes a cell of the tensor store:
\* the continuous and the categorical tensor stay equal to the tensors right after
\* construction.
C1_ReadsLeaveStoreUnchanged ==
    pc = "ready" => data = Constructed.data

\* the window that the last read was about
Window == data_index[out.idx + 1]

HasGap(w) == w.index_end - w.index_start + 1 < w.sequence_length

\* the store row (1-based) of window w observed at time t, or else latest before t
SourceRow(w, t) ==
    CHOOSE p \in (w.index_start + 1)..(w.index_end + 1) :
        /\ Last(data.cat[p]) <= t
        /\ \A q \in (w.index_start + 1)..(w.index_end + 1) : Last(data.cat[q]) <= t => q <= p

\* step k (0-based) of example o is store row p: a copy of it, but for the fill
\* constants when the step is synthetic (the relative time index is set afterwards)
StepIsRow(w, o, k, p) ==
    LET synthetic == Last(data.cat[p]) # w.time + k
    IN  /\ o.x_cat[k + 1] = SubSeq(data.cat[p], 1, Len(categoricals(kw)))
        /\ \A j \in 1..Len(reals(kw)) :
               reals(kw)[j] # "relative_time_idx" =>
                   o.x_cont[k + 1][j] =
                       IF synthetic /\ reals(kw)[j] \in DOMAIN kw.constant_fill_strategy
                       THEN StandardScaler_transform(scalers[reals(kw)[j]],
                                                     kw.constant_fill_strategy[reals(kw)[j]])
                       ELSE data.cont[p][j]
        /\ kw.weight = "None" =>
               (o.encoder_target \o o.target)[k + 1] = data.cont[p][Len(reals(kw)) + 1]

GapsFilled(w, o) ==
    /\ Len(o.x_cat) = w.sequence_length
    /\ Len(o.x_cont) = w.sequence_length
    /\ \A k \in 0..(w.sequence_length - 1) : StepIsRow(w, o, k, SourceRow(w, w.time + k))

\* C6: a window with fewer rows than sequence_length is read as exactly sequence_length
\* rows; the row at offset k is the observed row of time start + k if there is one and
\* otherwise a copy of the latest earlier observed row, except that a continuous feature
\* with a fill constant holds the encoded constant at the synthetic rows and only there.
C6_GapsForwardFilled ==
    (pc = "ready" /\ out.status = "ok" /\ ~kw.randomize_length /\ HasGap(Window)) =>
        GapsFilled(Window, out)

\* a read over a gap of two missing steps with a fill constant configured
C6_Witness ==
    /\ pc = "ready"
    /\ out.status = "ok"
    /\ ~kw.randomize_length
    /\ kw.constant_fill_strategy # <<>>
    /\ Window.sequence_length >= Window.index_end - Window.index_start + 3

LengthsAsSpecified(w, o, decoder_length) ==
    /\ Len(o.target) = decoder_length
    /\ o.encoder_length = w.sequence_length - decoder_length
    /\ Len(o.encoder_target) = o.encoder_length
    /\ Len(o.x_cat) = w.sequence_length
    /\ Len(o.x_cont) = w.sequence_length

\* C7: without randomization every returned example has decoder length
\* min(last_time_in_window - (min_prediction_idx - 1), max_prediction_length,
\* sequence_length) and encoder_length = sequence_length - decoder length; the feature
\* tensors have sequence_length rows, encoder_target encoder_length entries and the
\* label decoder-length entries.
C7_LengthsWithoutRandomization ==
    (pc = "ready" /\ out.status = "ok" /\ ~kw.randomize_length) =>
        LengthsAsSpecified(Window, out,
                           Min2(TimeAt(Window.index_end) - (min_prediction_idx - 1),
                                Min2(kw.max_prediction_length, Window.sequence_length)))

\* an example with an encoder part whose decoder length is set by min_prediction_idx
C7_Witness ==
    /\ pc = "ready"
    /\ out.status = "ok"
    /\ ~kw.randomize_length
    /\ out.encoder_length > 0
    /\ Len(out.target) < kw.max_prediction_length
    /\ Len(out.target) < Window.sequence_length

\* the instance with randomization switched off
Unrandomized(self) == [self EXCEPT !.kw.randomize_length = FALSE]

\* the columns of x_cat (1-based) that the dropout may set to 0
DropoutColumns(k) ==
    {ListIndex(categoricals(k), k.dropout_categoricals[i]) + 1 : i \in 1..Len(k.dropout_categoricals)}

\* The example the last read would have returned without randomization.  It is read
\* from the store as the last read left it: that read wrote only the relative time
\* index, which every read sets anew for all its rows, and, if it had no encoder part,
\* zeros to the dropout columns.
UnrandomizedOut == getitem(Unrandomized(Self), out.idx, 0, 0).out

\* example o is rows [enc - new_enc, enc + new_dec) of the unrandomized example u; the
\* dropout columns are compared only when o has an encoder part
NeverExtends(u, o, k) ==
    LET enc     == u.encoder_length
        new_enc == o.encoder_length
        new_dec == Len(o.target)
    IN  /\ u.status = "ok"
        /\ new_enc <= enc
        /\ new_dec >= k.min_prediction_length
        /\ new_dec <= Len(u.target)
        /\ Len(o.encoder_target) = new_enc
        /\ o.encoder_target \o o.target = Slice(u.encoder_target \o u.target, enc - new_enc, enc + new_dec)
        /\ o.x_cont = Slice(u.x_cont, enc - new_enc, enc + new_dec)
        /\ Len(o.x_cat) = new_enc + new_dec
        /\ \A i \in 1..(new_enc + new_dec) : \A j \in 1..Len(categoricals(k)) :
               (new_enc > 0 \/ j \notin DropoutColumns(k)) =>
                   o.x_cat[i][j] = u.x_cat[enc - new_enc + i][j]
        /\ (new_enc + new_dec < enc + Len(u.target)) \/ (new_enc = enc /\ new_dec = Len(u.target))

\* C8: with randomization, whatever lengths are drawn, the returned example never
\* extends the unrandomized window: its encoder length is at most the unrandomized one,
\* its decoder length is between min_prediction_length and the unrandomized one, and
\* its rows are rows [enc - new_enc, enc + new_dec) of the unrandomized window, which
\* is truncated only when the new total length is strictly smaller.
C8_RandomizationNeverExtends ==
    (pc = "ready" /\ kw.randomize_length /\ out.status = "ok") =>
        NeverExtends(UnrandomizedOut, out, kw)

\* a randomized example shorter than the unrandomized one on both sides of the boundary
C8_Witness ==
    /\ pc = "ready"
    /\ kw.randomize_length
    /\ out.status = "ok"
    /\ out.encoder_length > 0
    /\ out.encoder_length < UnrandomizedOut.encoder_length
    /\ Len(out.target) < Len(UnrandomizedOut.target)

\* C9: with randomization, a read of a window that can be read without randomization
\* never fails: the assertions after the randomization hold for every pair of drawn
\* lengths, also for windows reconstructed over gaps.
C9_RandomizedReadNeverFails ==
    (pc = "ready" /\ kw.randomize_length /\ out.status = "AssertionError") =>
        UnrandomizedOut.status = "AssertionError"

\* the example an unrandomized read of the freshly constructed store returns
ConstructedOut(idx) == getitem(Unrandomized([Self EXCEPT !.data = Constructed.data]), idx, 0, 0).out

\* the dropout columns of example o: 0 without an encoder part, else the codes of u
DropoutCodes(u, o, k) ==
    \A i \in 1..Len(o.x_cat) : \A j \in DropoutColumns(k) :
        o.x_cat[i][j] = IF o.encoder_length = 0 THEN 0
                        ELSE u.x_cat[u.encoder_length - o.encoder_length + i][j]

\* C10: with randomization and dropout categoricals, after any sequence of reads an
\* example with encoder length 0 holds code 0 in every dropout column at every step,
\* and an example with encoder length > 0 holds the codes encoded at construction.
C10_DropoutCodes ==
    (pc = "ready" /\ kw.randomize_length /\ kw.dropout_categoricals # <<>> /\ out.status = "ok") =>
        DropoutCodes(ConstructedOut(out.idx), out, kw)

\* the column (1-based) of the relative time index in x_cont
RelativeTimeIdxColumn(k) == ListIndex(reals(k), "relative_time_idx") + 1

\* cell v is the number a / b
IsQuotient(v, a, b) == v.den # 0 /\ v.rad = 1 /\ v.num * b = a * v.den

RelativeTimeIdxAsSpecified(o, k) ==
    \A j \in 0..(Len(o.x_cont) - 1) :
        LET v == o.x_cont[j + 1][RelativeTimeIdxColumn(k)]
        IN  /\ IsQuotient(v, j - o.encoder_length, k.max_encoder_length)
            /\ j < o.encoder_length => v.num * v.den < 0
            /\ j = o.encoder_length => v.num = 0

\* C11: with add_relative_time_idx, the returned example has at retained step j
\* (0-based, after any truncation) relative_time_idx = (j - encoder_length) /
\* max_encoder_length: negative on every encoder step, 0 on the first decoder step and
\* increasing by 1 / max_encoder_length per step.
C11_RelativeTimeIdx ==
    (pc = "ready" /\ out.status = "ok" /\ kw.add_relative_time_idx) =>
        RelativeTimeIdxAsSpecified(out, kw)

\* the unscaled target carried by store row p: the __target__ column
UnscaledTarget(p) == data.cont[p][Len(reals(kw)) + 1]

\* the row of the reconstructed window that example o has at its step i (1-based):
\* without randomization the example starts at the start of the window
TargetsOfSteps(w, o) ==
    /\ Len(o.encoder_target) = o.encoder_length
    /\ \A i \in 1..Len(o.x_cat) :
           (o.encoder_target \o o.target)[i] = UnscaledTarget(SourceRow(w, w.time + i - 1))

\* C12: for every example, whether or not a weight column is configured, encoder_target
\* is the sequence of the unscaled target values of the encoder steps and the label the
\* sequence of the unscaled target values of the decoder steps, one value per step.
C12_TargetsAreUnscaledTarget ==
    (pc = "ready" /\ out.status = "ok" /\ ~kw.randomize_length) => TargetsOfSteps(Window, out)

\* arguments of the data loader: no randomization
AllKwBatch ==
    [max_encoder_length    : 1..MaxEnc,
     min_encoder_length    : {0},
     min_prediction_idx    : {0, 2},
     min_prediction_length : {1},
     max_prediction_length : 1..MaxPred,
     predict_mode          : {FALSE},
     weight                : {"None", "w"},
     dropout_categoricals  : {<<>>},
     add_relative_time_idx : BOOLEAN,
     constant_fill_strategy: {<<>>},
     randomize_length      : {FALSE}]

KwBatch == OneOption(AllKwBatch)

\* the index lists of the sampler: batches of two examples
BatchSize == 2
BatchIndices == [1..BatchSize -> Windows]

NextBatch == (\E k \in KwBatch : Construct(k)) \/ (\E indices \in BatchIndices : Fetch(indices))

SpecBatch == InitRand /\ [][NextBatch]_vars

FeatureColumns(o, k) ==
    /\ \A i \in 1..Len(o.x_cont) : Len(o.x_cont[i]) = Len(reals(k))
    /\ \A i \in 1..Len(o.x_cat) : Len(o.x_cat[i]) = Len(categoricals(k))

\* every row of every sequence of a padded tensor has `width` columns
RowsOfWidth(tensor, width) ==
    \A i \in 1..Len(tensor) : \A j \in 1..Len(tensor[i]) : Len(tensor[i][j]) = width

BatchFeatureColumns(b, k) ==
    /\ RowsOfWidth(b.encoder_cont, Len(reals(k)))
    /\ RowsOfWidth(b.decoder_cont, Len(reals(k)))
    /\ RowsOfWidth(b.encoder_cat, Len(categoricals(k)))
    /\ RowsOfWidth(b.decoder_cat, Len(categoricals(k)))

\* C13: in every example and every collated batch, with or without a weight, the
\* continuous feature tensor has exactly the columns of `reals` in their order and the
\* categorical feature tensor exactly the columns of `categoricals`: the shadow time
\* index, the shadow target and the weight never appear as feature columns.
C13_FeaturesAreRealsAndCategoricals ==
    /\ (pc = "ready" /\ out.status = "ok") =>
           /\ FeatureColumns(out, kw)
           /\ \A step \in 0..(Len(out.x_cat) - 1) :
                  StepIsRow(Window, out, step, SourceRow(Window, Window.time + step))
    /\ (pc = "ready" /\ batch.status = "ok") =>
           /\ \A i \in 1..Len(batch.batches) : FeatureColumns(batch.batches[i], kw)
           /\ BatchFeatureColumns(batch, kw)

\* a padded batch of two examples of a dataset with a weight column
C13_Witness ==
    /\ pc = "ready"
    /\ kw.weight # "None"
    /\ batch.status = "ok"
    /\ Len(batch.batches) = 2
    /\ batch.encoder_lengths[1] # batch.encoder_lengths[2]
    /\ batch.decoder_lengths[1] # batch.decoder_lengths[2]

\* sequence `padded` is `valid` followed by zeros up to length n
PaddedTo(padded, valid, n, zero) ==
    /\ Len(padded) = n
    /\ \A j \in 1..n : padded[j] = IF j <= Len(valid) THEN valid[j] ELSE zero

LongestEncoder(b) == SeqMax(<<0>> \o b.encoder_lengths)
LongestDecoder(b) == SeqMax(<<0>> \o b.decoder_lengths)

PaddedExample(b, k, i, e, enc, dec) ==
    /\ b.encoder_lengths[i] = e.encoder_length
    /\ b.decoder_lengths[i] = Len(e.target)
    /\ b.encoder_lengths[i] + b.decoder_lengths[i] = Len(e.x_cont)
    /\ Len(e.x_cat) = Len(e.x_cont)
    /\ PaddedTo(b.encoder_cont[i], Slice(e.x_cont, 0, e.encoder_length), enc, ZeroCont(k))
    /\ PaddedTo(b.encoder_cat[i], Slice(e.x_cat, 0, e.encoder_length), enc, ZeroCat(k))
    /\ PaddedTo(b.encoder_target[i], e.encoder_target, enc, ZeroTarget(k))
    /\ PaddedTo(b.decoder_cont[i], Slice(e.x_cont, e.encoder_length, Len(e.x_cont)), dec, ZeroCont(k))
    /\ PaddedTo(b.decoder_cat[i], Slice(e.x_cat, e.encoder_length, Len(e.x_cat)), dec, ZeroCat(k))
    /\ PaddedTo(b.decoder_target[i], e.target, dec, ZeroTarget(k))
    /\ PaddedTo(b.target[i], e.target, dec, ZeroTarget(k))

\* C14: _collate_fn pads the encoder-side tensors to the largest encoder length of the
\* batch and the decoder-side tensors and the target to the largest decoder length,
\* independently; for example i the first encoder_lengths[i] encoder rows are its
\* encoder rows, the first decoder_lengths[i] decoder rows its decoder rows, every row
\* after them is zero, and encoder_lengths[i] + decoder_lengths[i] is its number of rows.
C14_CollatePadsIndependently ==
    (pc = "ready" /\ batch.status = "ok") =>
        \A i \in 1..Len(batch.batches) :
            PaddedExample(batch, kw, i, batch.batches[i], LongestEncoder(batch), LongestDecoder(batch))

\* a batch in which the example with the longer encoder part has the shorter decoder part
C14_Witness ==
    /\ pc = "ready"
    /\ batch.status = "ok"
    /\ \E i, j \in 1..Len(batch.batches) :
           /\ batch.encoder_lengths[i] > batch.encoder_lengths[j]
           /\ batch.decoder_lengths[i] < batch.decoder_lengths[j]

\* the example of window idx when the reads run one after another
SequentialExample(idx) == getitem([Self EXCEPT !.data = Constructed.data], idx, 0, 0).out

\* C21: workers that share the dataset and read different windows concurrently obtain,
\* in every interleaving of their steps, the example that the same read gives when the
\* reads run one after another.
C21_ConcurrentReadsAsSequential ==
    \A w \in Workers :
        workers[w].pc = "done" => workers[w].example = SequentialExample(workers[w].idx)

(* --------------------- the synchronized batch sampler ------------------ *)
\* the decoder start time of window idx: the time of its first row plus its encoder
\* length, for the decoder length min(last_time_in_window - (min_prediction_idx - 1),
\* max_prediction_length, sequence_length)
decoder_start_time(self, idx) ==
    LET x == self.data_index[idx + 1]
        last_time == x.time + x.sequence_length - 1
        decoder_length == Min2(last_time - (self.min_prediction_idx - 1),
                               Min2(self.kw.max_prediction_length, x.sequence_length))
    IN  x.time + (x.sequence_length - decoder_length)

\* a list cut into pieces of `size` elements, the last one holding the rest
RECURSIVE chunks(_, _)
chunks(list, size) ==
    IF list = <<>> THEN <<>>
    ELSE <<SubSeq(list, 1, Min2(size, Len(list)))>>
             \o chunks(SubSeq(list, Min2(size, Len(list)) + 1, Len(list)), size)

RECURSIVE Flatten(_)
Flatten(lists) == IF lists = <<>> THEN <<>> ELSE Head(lists) \o Flatten(Tail(lists))

\* the batches of the sampler: the window indices grouped by decoder start time, the
\* windows of a group in the order of the index, every group cut into batches of
\* batch_size, a short last batch of a group left out with drop_last
TimeSynchronizedBatchSampler(self, batch_size, drop_last) ==
    LET n == Len(self.data_index)
        window(i) == i - 1
        windows == SeqOf(n, window)
        start(i) == decoder_start_time(self, i - 1)
        starts == SeqOf(n, start)
        group(t) == SelectPositions(windows, {i \in 1..n : starts[i] = t}, 1)
        batches_at(t) ==
            LET all == chunks(group(t), batch_size)
            IN  SelectPositions(all, {i \in 1..Len(all) : ~drop_last \/ Len(all[i]) = batch_size}, 1)
        by_time(t) == batches_at(t - 1)
    IN  IF n = 0 THEN <<>>
        ELSE Flatten(SeqOf(SeqMax(starts) + 1, by_time))

\* iter(dataset.to_dataloader(batch_sampler="synchronized", batch_size=, drop_last=,
\* shuffle=)): the batches still to come
IterSynchronized(batch_size, drop_last, shuffle) ==
    /\ pc = "ready"
    /\ ~kw.randomize_length
    /\ batch = NoOutput
    /\ batch' = [status |-> "iterating",
                 sampler |-> [batch_size |-> batch_size, drop_last |-> drop_last, shuffle |-> shuffle,
                              remaining |-> TimeSynchronizedBatchSampler(Self, batch_size, drop_last)]]
    /\ UNCHANGED <<raw, pc, kw, min_prediction_idx, categoricals_encoders, scalers,
                   encoded_constant_fill_strategy, data_index, data, out, derived, encoder, result,
                   workers, defaults, second, overwrite_values, control>>

Without(list, n) == SubSeq(list, 1, n - 1) \o SubSeq(list, n + 1, Len(list))

\* next(iterator): the batch yielded is the first of the remaining ones, any of them
\* with shuffle; its examples are read and collated
NextSynchronized(n) ==
    /\ pc = "ready"
    /\ batch.status \in {"iterating", "ok"}
    /\ "sampler" \in DOMAIN batch
    /\ n <= Len(batch.sampler.remaining)
    /\ batch.sampler.shuffle \/ n = 1
    /\ LET indices == batch.sampler.remaining[n]
           fetched == fetch_items(Self, indices, <<>>)
       IN  /\ data' = fetched.data
           /\ out' = Last(fetched.items).out
           /\ batch' = fetch_batch(Self, fetched)
                           @@ [indices |-> indices,
                               sampler |-> [batch.sampler EXCEPT
                                                !.remaining = Without(batch.sampler.remaining, n)]]
    /\ UNCHANGED <<raw, pc, kw, min_prediction_idx, categoricals_encoders, scalers,
                   encoded_constant_fill_strategy, data_index, derived, encoder, result,
                   workers, defaults, second, overwrite_values, control>>

AllKwSampler ==
    [max_encoder_length    : {MaxEnc},
     min_encoder_length    : {0},
     min_prediction_idx    : {0, 2},
     min_prediction_length : {1},
     max_prediction_length : 1..MaxPred,
     predict_mode          : {FALSE},
     weight                : {"None"},
     dropout_categoricals  : {<<>>},
     add_relative_time_idx : {FALSE},
     constant_fill_strategy: {<<>>},
     randomize_length      : {FALSE}]

BatchSizes == 1..(MaxRows - 1)

NextSampler ==
    \/ \E k \in AllKwSampler : Construct(k)
    \/ \E batch_size \in BatchSizes, drop_last, shuffle \in BOOLEAN :
           IterSynchronized(batch_size, drop_last, shuffle)
    \/ \E n \in 1..(MaxRows - 1) : NextSynchronized(n)

SpecSampler == InitRead /\ [][NextSampler]_vars

\* the decoder of example i of the batch starts at the time of the first row of its
\* window plus its encoder length
FirstDecoderTime(i) == data_index[batch.indices[i] + 1].time + batch.encoder_lengths[i]

overwrite_positions(example, target) ==
    CASE target = "all"     -> 1..Len(example.x_cat)
      [] target = "encoder" -> 1..example.encoder_length
      [] target = "decoder" -> (example.encoder_length + 1)..Len(example.x_cat)

\* the copy of the example with the overwrite applied
overwritten(self, ov, example) ==
    LET k == self.kw
        positions == overwrite_positions(example, ov.target)
        cont_row(i) ==
            LET cell(j) == IF i \in positions /\ j = ListIndex(reals(k), ov.variable) + 1
                           THEN ov.value ELSE example.x_cont[i][j]
            IN  SeqOf(Len(example.x_cont[i]), cell)
        cat_row(i) ==
            LET cell(j) == IF i \in positions /\ j = ListIndex(categoricals(k), ov.variable) + 1
                           THEN ov.value ELSE example.x_cat[i][j]
            IN  SeqOf(Len(example.x_cat[i]), cell)
    IN  IF ov.status # "set" THEN example
        ELSE IF InList(reals(k), ov.variable)
        THEN [example EXCEPT !.x_cont = SeqOf(Len(example.x_cont), cont_row)]
        ELSE [example EXCEPT !.x_cat = SeqOf(Len(example.x_cat), cat_row)]

\* the batch of a fetch while an overwrite may be set
overwritten_batch(self, ov, fetched) ==
    LET example(i) == overwritten(self, ov, example_at_collate(self, fetched.data, fetched.items[i]))
    IN  IF fetched.raised THEN [status |-> "AssertionError"]
        ELSE collate_fn(self, SeqOf(Len(fetched.items), example))

\* next(iter(dataset.to_dataloader(train=False))) for the batch `indices`; the first
\* batch read is kept as the control, the later reads are of the same windows in
\* either order
LoaderRead(indices) ==
    /\ pc = "ready"
    /\ ~kw.randomize_length
    /\ \A i \in 1..Len(indices) : indices[i] < Len(data_index)
    /\ IF control = NoOutput THEN TRUE
       ELSE /\ control.status = "ok"
            /\ indices \in {control.indices, <<control.indices[2], control.indices[1]>>}
    /\ LET fetched == fetch_items(Self, indices, <<>>)
           read == overwritten_batch(Self, overwrite_values, fetched)
                       @@ [indices |-> indices, overwrite |-> overwrite_values]
       IN  /\ data' = fetched.data
           /\ out' = Last(fetched.items).out
           /\ batch' = read
           /\ control' = IF control = NoOutput THEN read ELSE control
    /\ UNCHANGED <<raw, pc, kw, min_prediction_idx, categoricals_encoders, scalers,
                   encoded_constant_fill_strategy, data_index, derived, encoder, result,
                   workers, defaults, second, overwrite_values>>

\* the value as the tensor store holds it: scaled, or encoded
overwrite_value(value, variable) ==
    IF variable \in DOMAIN scalers THEN StandardScaler_transform(scalers[variable], value)
    ELSE NaNLabelEncoder_transform(categoricals_encoders[variable], value)

\* dataset.set_overwrite_values(value, variable=variable, target=target)
set_overwrite_values(value, variable, target) ==
    /\ pc = "ready"
    /\ control # NoOutput
    /\ overwrite_values = NoOutput
    /\ variable \in DOMAIN scalers \cup DOMAIN categoricals_encoders
    /\ IF variable \in DOMAIN scalers THEN TRUE
       ELSE InList(categoricals_encoders[variable].classes_, value)
    /\ overwrite_values' = [status |-> "set", value |-> overwrite_value(value, variable),
                            variable |-> variable, target |-> target]
    /\ UNCHANGED <<raw, pc, kw, min_prediction_idx, categoricals_encoders, scalers,
                   encoded_constant_fill_strategy, data_index, data, out, batch, derived, encoder,
                   result, workers, defaults, second, control>>

\* dataset.reset_overwrite_values()
reset_overwrite_values ==
    /\ pc = "ready"
    /\ overwrite_values.status = "set"
    /\ overwrite_values' = [status |-> "reset"]
    /\ UNCHANGED <<raw, pc, kw, min_prediction_idx, categoricals_encoders, scalers,
                   encoded_constant_fill_strategy, data_index, data, out, batch, derived, encoder,
                   result, workers, defaults, second, control>>

AllKwOverwrite ==
    [max_encoder_length    : {1},
     min_encoder_length    : {0},
     min_prediction_idx    : {0},
     min_prediction_length : {1},
     max_prediction_length : 1..MaxPred,
     predict_mode          : {FALSE},
     weight                : {"None"},
     dropout_categoricals  : {<<>>},
     add_relative_time_idx : BOOLEAN,
     constant_fill_strategy: {<<>>},
     randomize_length      : {FALSE}]

\* the overwrites: of the continuous x by 1, of the categorical c by "a"
OverwriteVariables == {"x", "c"}
OverwriteValue(variable) == IF variable = "x" THEN 1 ELSE "a"
OverwriteTargets == {"encoder", "decoder", "all"}

NextOverwrite ==
    \/ \E k \in AllKwOverwrite : Construct(k)
    \/ \E indices \in BatchIndices : LoaderRead(indices)
    \/ \E variable \in OverwriteVariables, target \in OverwriteTargets :
           set_overwrite_values(OverwriteValue(variable), variable, target)
    \/ reset_overwrite_values

SpecOverwrite == InitRand /\ [][NextOverwrite]_vars

\* the outputs of a batch
Outputs(b) ==
    [name \in {"encoder_cat", "encoder_cont", "encoder_target", "encoder_lengths", "decoder_cat",
               "decoder_cont", "decoder_target", "decoder_lengths", "target"} |-> b[name]]

\* the outputs that an overwrite names
OutputNames(k, ov) ==
    LET suffix == IF InList(reals(k), ov.variable) THEN "cont" ELSE "cat"
    IN  {name \in {"encoder_cont", "decoder_cont", "encoder_cat", "decoder_cat"} :
            \/ ov.target \in {"encoder", "all"} /\ name = "encoder_" \o suffix
            \/ ov.target \in {"decoder", "all"} /\ name = "decoder_" \o suffix}

\* the valid steps of example i in output `name`
ValidSteps(b, name, i) ==
    IF name \in {"encoder_cont", "encoder_cat"} THEN 1..b.encoder_lengths[i] ELSE 1..b.decoder_lengths[i]

\* output `name` of batch b is that of batch c with the value in the column of the
\* variable at every valid step
Overwritten(b, c, name, k, ov) ==
    LET column == IF InList(reals(k), ov.variable) THEN ListIndex(reals(k), ov.variable) + 1
                  ELSE ListIndex(categoricals(k), ov.variable) + 1
    IN  /\ Len(b[name]) = Len(c[name])
        /\ \A i \in 1..Len(b[name]) :
               /\ Len(b[name][i]) = Len(c[name][i])
               /\ \A step \in 1..Len(b[name][i]) : \A j \in 1..Len(b[name][i][step]) :
                      b[name][i][step][j] =
                          IF step \in ValidSteps(b, name, i) /\ j = column THEN ov.value
                          ELSE c[name][i][step][j]

C26_ExamplesKeptUntilCollate ==
    (pc = "ready" /\ batch.status = "ok" /\ kw.add_relative_time_idx) =>
        \A i \in 1..Len(batch.batches) : RelativeTimeIdxAsSpecified(batch.batches[i], kw)

FitSet(enc) == Range(enc.classes_) \ {"nan"}

\* C16: transform of a value absent from the fit set fails with a lookup error when
\* the encoder was created with add_nan false; with add_nan true it returns the
\* reserved code 0 for that value (and for a missing value), while every value of the
\* fit set gets a code > 0.
C16_UnseenValues ==
    (pc = "encoder" /\ result.status # "none" /\ result.op = "transform" /\ encoder.fitted) =>
        IF encoder.add_nan
        THEN /\ result.status = "ok"
             /\ \A i \in 1..Len(result.arg) :
                    IF result.arg[i] \in FitSet(encoder) THEN result.value[i] > 0
                    ELSE result.value[i] = 0
        ELSE (\E i \in 1..Len(result.arg) : ~InList(encoder.classes_, result.arg[i])) =>
                 result.status = "ValueError"

\* C30: fit_transform(y) on a fresh encoder returns the same codes and leaves the same
\* fitted vocabulary as fit(y) followed by transform(y), for add_nan true and false.
C30_FitTransformIsFitThenTransform ==
    (pc = "encoder" /\ result.status # "none" /\ result.op = "fit_transform" /\ result.fresh) =>
        LET fitted == NaNLabelEncoder_fitted(NaNLabelEncoder_new(encoder.add_nan), result.arg)
            codes  == NaNLabelEncoder_transform_column(fitted, result.arg)
        IN  /\ encoder = fitted
            /\ result.status = codes.status
            /\ result.status = "ok" => result.value = codes.value

\* arguments of the constructor for tables with repeated keys
AllKwKeys ==
    [max_encoder_length    : {MaxEnc},
     min_encoder_length    : {0},
     min_prediction_idx    : {0},
     min_prediction_length : {1},
     max_prediction_length : 1..MaxPred,
     predict_mode          : BOOLEAN,
     weight                : {"None"},
     dropout_categoricals  : {<<>>},
     add_relative_time_idx : {TRUE},
     constant_fill_strategy: {<<>>},
     randomize_length      : {FALSE}]

NextKeys == \E k \in AllKwKeys : Construct(k)

InitKeys == InitWith(KeyTables)

SpecKeys == InitKeys /\ [][NextKeys]_vars

\* no two rows of the table share their (group_ids, time_idx) key
KeysAreUnique(rows) == \A a, b \in rows : (a.g = b.g /\ a.t = b.t) => a = b

\* C17: constructing a dataset from a table in which two rows share the same
\* (group_ids, time_idx) key fails: the constructor reports an error and no dataset
\* with an index is produced.
C17_RepeatedKeysFail ==
    pc = "ready" => KeysAreUnique(Rows(raw))

\* the tables of the source datasets: one row of each series
SourceTables == {s \in TablesUpTo(2) : {cell[1] : cell \in s} = Groups}

\* the tables handed to from_dataset
DerivedTables == TablesUpTo(2)

\* arguments of the source datasets
AllKwSource ==
    [max_encoder_length    : {1},
     min_encoder_length    : {0},
     min_prediction_idx    : {0},
     min_prediction_length : {1},
     max_prediction_length : 1..MaxPred,
     predict_mode          : {FALSE},
     weight                : {"None"},
     dropout_categoricals  : {<<>>},
     add_relative_time_idx : {TRUE},
     constant_fill_strategy: {<<>>},
     randomize_length      : BOOLEAN]

\* the keyword arguments handed on to the constructor by from_dataset
UpdateKwargs == {<<>>, [randomize_length |-> TRUE]}

NextDerive ==
    \/ \E k \in AllKwSource : Construct(k)
    \/ \E table \in DerivedTables, stop_randomization, predict \in BOOLEAN, update_kwargs \in UpdateKwargs :
           FromDataset(table, stop_randomization, predict, update_kwargs)

InitDerive == InitWith(SourceTables)

SpecDerive == InitDerive /\ [][NextDerive]_vars

\* arguments of the calls that leave the dictionaries and the column lists out
AllKwDefaults ==
    [max_encoder_length    : {1},
     min_encoder_length    : {0},
     min_prediction_idx    : {0},
     min_prediction_length : 0..1,
     max_prediction_length : {1},
     predict_mode          : {FALSE},
     weight                : {"None"},
     dropout_categoricals  : {<<>>},
     add_relative_time_idx : BOOLEAN,
     constant_fill_strategy: {<<>>},
     randomize_length      : {FALSE}]

SecondTables == TablesUpTo(2)

NextDefaults ==
    \/ \E k \in AllKwDefaults : ConstructDefaults(k)
    \/ \E table \in SecondTables, k \in AllKwDefaults : ConstructSecond(table, k)

SpecDefaults == InitWith(SecondTables) /\ [][NextDefaults]_vars

\* the arguments of a call without the list object
Arguments(k) == [name \in DOMAIN k \ {"time_varying_known_reals"} |-> k[name]]

\* what the constructor returns in a process that has not called it before
Alone(table, k) == TimeSeriesDataSet_defaults(Rows(table), k, NoDefaults)

SameFitsAndColumns(a, b) ==
    /\ a.status = b.status
    /\ a.status = "ok" =>
           /\ a.categoricals_encoders = b.categoricals_encoders
           /\ a.scalers = b.scalers
           /\ categoricals(a.kw) = categoricals(b.kw)
           /\ reals(a.kw) = reals(b.kw)

\* C29: two datasets constructed one after the other with no encoders, scalers or
\* column lists given are independent: encoders, scalers and column lists of the second
\* are those of the same call made alone, and the first dataset keeps its own.
C29_ConstructionsIndependent ==
    (pc = "ready" /\ second.status # "none") =>
        /\ SameFitsAndColumns(second, Alone(second.call.table, second.call.k))
        /\ SameFitsAndColumns([status |-> "ok", kw |-> kw,
                               categoricals_encoders |-> categoricals_encoders, scalers |-> scalers],
                              Alone(raw, Arguments(kw)))

\* C18: from_dataset(source, table) returns a dataset whose encoder for every categorical
\* and scaler for every continuous column are the ones fitted by the source (nothing is
\* refit on the new table), and leaves the source's encoders, scalers, window index and
\* tensor store unchanged.
C18_FromDatasetReusesFits ==
    (pc = "ready" /\ derived.status = "ok") =>
        /\ derived.categoricals_encoders = Constructed.categoricals_encoders
        /\ derived.scalers = Constructed.scalers
        /\ categoricals_encoders = Constructed.categoricals_encoders
        /\ scalers = Constructed.scalers
        /\ data_index = Constructed.data_index
        /\ data = Constructed.data

\* a dataset derived by from_dataset(source, table) from a table on which the encoders or
\* the scalers would be fitted differently
C18_Witness ==
    /\ pc = "ready"
    /\ derived.status = "ok"
    /\ derived.call.update_kwargs = <<>>
    /\ derived.call.predict
    /\ derived.call.stop_randomization
    /\ fit_scalers(derived.kw, sort_values(Rows(derived.call.table))) # scalers
    /\ fit_categoricals_encoders(derived.kw, sort_values(Rows(derived.call.table))) # categoricals_encoders

\* C19: from_dataset with predict=True and stop_randomization=False fails with an
\* assertion error and creates no dataset; every dataset that from_dataset returns for
\* predict=True, whatever update_kwargs are given, has length randomization disabled,
\* predict_mode set and min_prediction_length equal to max_prediction_length.
C19_PredictDatasets ==
    (pc = "ready" /\ derived.status # "none" /\ derived.call.predict) =>
        /\ ~derived.call.stop_randomization => derived.status = "AssertionError"
        /\ derived.status = "ok" =>
               /\ ~derived.kw.randomize_length
               /\ derived.kw.predict_mode
               /\ derived.kw.min_prediction_length = derived.kw.max_prediction_length

\* the rows of series g in its last max_encoder_length + max_prediction_length time steps
LastSteps(k, table, g) ==
    LET times == {cell[2] : cell \in {c \in table : c[1] = g}}
    IN  {t \in times : \A u \in times : t > u - (k.max_encoder_length + k.max_prediction_length)}

\* the windows that the dataset holds for series g of its table
WindowsOf(dataset, table, g) ==
    LET group_id == Cardinality({h \in {cell[1] : cell \in table} : h < g})
    IN  {i \in 1..Len(dataset.data_index) : dataset.data_index[i].group_id = group_id}

\* the example read at position i - 1 of the dataset
ExampleOf(dataset, i) == [getitem(dataset, i - 1, 0, 0).out EXCEPT !.idx = 0]

\* the windows that the dataset holds for series g: start time, sequence length and the
\* example read
WindowExamples(dataset, table, g) ==
    {[time            |-> dataset.data_index[i].time,
      sequence_length |-> dataset.data_index[i].sequence_length,
      example         |-> ExampleOf(dataset, i)] : i \in WindowsOf(dataset, table, g)}

\* the two datasets hold the same window for series g and return the same example for it
SameWindow(A, tableA, B, tableB, g) ==
    WindowExamples(A, tableA, g) = WindowExamples(B, tableB, g)

\* the dataset derived with predict=True from the table B
PredictDataset(table) == from_dataset(Dataset, Rows(table), TRUE, TRUE, <<>>)

\* C20: two datasets derived from one source by from_dataset(..., predict=True) from the
\* tables A and B, with no missing values, hold for every series whose rows of the last
\* max_encoder_length + max_prediction_length time steps are the same in A and B the same
\* window (start time and sequence length) and return the same example for it.
C20_PredictSameTail ==
    (pc = "ready" /\ derived.status = "ok" /\ derived.call.predict
        /\ derived.call.update_kwargs = <<>>) =>
        \A B \in DerivedTables :
            LET other == PredictDataset(B)
                A     == derived.call.table
            IN  other.status = "ok" =>
                    \A g \in Groups :
                        (LastSteps(kw, A, g) # {} /\ LastSteps(kw, A, g) = LastSteps(kw, B, g)) =>
                            SameWindow(derived, A, other, B, g)

\* the table A holds rows that B lacks, of the series itself before its last steps and of
\* another series, and both datasets return an example for the series
C20_Witness ==
    /\ pc = "ready"
    /\ derived.status = "ok"
    /\ derived.call.predict
    /\ derived.call.update_kwargs = <<>>
    /\ \E B \in DerivedTables, g \in Groups :
           /\ PredictDataset(B).status = "ok"
           /\ LastSteps(kw, derived.call.table, g) = LastSteps(kw, B, g)
           /\ LastSteps(kw, B, g) # {}
           /\ {cell \in B : cell[1] = g} # {cell \in derived.call.table : cell[1] = g}
           /\ \E w \in WindowExamples(derived, derived.call.table, g) : w.example.status = "ok"

\* arguments of the lengths and of the fill constant of the target
AllKwArguments ==
    [max_encoder_length    : 1..MaxEnc,
     min_encoder_length    : 0..1,
     min_prediction_idx    : {0, 2},
     min_prediction_length : {1},
     max_prediction_length : 1..MaxPred,
     predict_mode          : {FALSE},
     weight                : {"None"},
     dropout_categoricals  : {<<>>},
     add_relative_time_idx : {TRUE},
     constant_fill_strategy: {<<>>, [y |-> 0]},
     randomize_length      : {FALSE}]

NextArguments ==
    \/ \E k \in AllKwArguments : Construct(k)
    \/ \E idx \in Windows : GetItem(idx, 0, 0)

SpecArguments == InitRead /\ [][NextArguments]_vars

\* C27: with randomization disabled every example read from a window of the index has
\* min_encoder_length <= encoder_length <= max_encoder_length.
C27_EncoderLengthWithinBounds ==
    (pc = "ready" /\ out.status = "ok" /\ ~kw.randomize_length) =>
        /\ kw.min_encoder_length <= out.encoder_length
        /\ out.encoder_length <= kw.max_encoder_length

\* step k (0-based) of window w is synthetic: the table has no row of that time
SyntheticStep(w, k) ==
    \A p \in (w.index_start + 1)..(w.index_end + 1) : Last(data.cat[p]) # w.time + k

\* C28: when the target has a fill constant in constant_fill_strategy the target values
\* of the synthetic (gap-filled) steps, in encoder_target and in the label, equal that
\* constant and not the value of the preceding observed row.
C28_TargetFilledWithConstant ==
    (pc = "ready" /\ out.status = "ok" /\ HasGap(Window)
        /\ "y" \in DOMAIN kw.constant_fill_strategy) =>
        \A k \in 0..(Window.sequence_length - 1) :
            SyntheticStep(Window, k) =>
                (out.encoder_target \o out.target)[k + 1] = Flt(kw.constant_fill_strategy["y"])

(* ======================= properties of the index ======================= *)
SortedRaw == sort_values(Rows(raw))

\* C2: in training mode the last time index of every kept window is at least
\* min_prediction_idx - 1 + min_prediction_length, so that the decoder length of the
\* read without randomization is at least min_prediction_length.
C2_KeptWindowsAllowMinPrediction ==
    (pc = "ready" /\ ~kw.predict_mode) =>
        \A i \in 1..Len(data_index) :
            /\ TimeAt(data_index[i].index_end) >= min_prediction_idx - 1 + kw.min_prediction_length
            /\ decoder_length_of(Self, reconstructed(Self, data_index[i])) >= kw.min_prediction_length

WindowInvariant(df, w) ==
    /\ 0 <= w.index_start
    /\ w.index_start <= w.index_end
    /\ w.index_end < Len(df)
    /\ df[w.index_start + 1].g = df[w.index_end + 1].g
    /\ w.sequence_length = df[w.index_end + 1].t - df[w.index_start + 1].t + 1
    /\ w.sequence_length >= kw.min_prediction_length + kw.min_encoder_length
    /\ w.sequence_length <= kw.max_encoder_length + kw.max_prediction_length

AllWindows(df) == \A i \in 1..Len(data_index) : WindowInvariant(df, data_index[i])

\* C3: every window of the index has index_start <= index_end in the same group,
\* sequence_length equal to the real-time span time[index_end] - time[index_start] + 1,
\* and min_prediction_length + min_encoder_length <= sequence_length
\* <= max_encoder_length + max_prediction_length.
C3_WindowInvariant ==
    pc = "ready" => AllWindows(SortedRaw)

\* a window over a gap (more time steps than rows) in a table of two series
C3_Witness ==
    /\ pc = "ready"
    /\ {cell[1] : cell \in raw} = Groups
    /\ \E i \in 1..Len(data_index) :
           /\ data_index[i].index_start > 0
           /\ data_index[i].sequence_length > data_index[i].index_end - data_index[i].index_start + 1

\* the index before filtering: one candidate window per start row
Candidates == df_index_full(SortedRaw, kw)

\* the start rows of group g that predict mode may choose from
EligibleStarts(cand, g) ==
    {i \in 1..Len(cand) :
        /\ cand[i].group_id = g
        /\ cand[i].time_last - cand[i].time + 1 <= kw.max_prediction_length + kw.max_encoder_length
        /\ cand[i].sequence_length >= kw.min_prediction_length + kw.min_encoder_length}

KeepsLongestEligible(cand, g, starts, kept) ==
    IF starts = {} THEN kept = {}
    ELSE /\ Cardinality(kept) = 1
         /\ \E i \in starts :
                /\ \A j \in kept : data_index[j] = cand[i]
                /\ \A o \in starts :
                       \/ cand[o].sequence_length < cand[i].sequence_length
                       \/ (cand[o].sequence_length = cand[i].sequence_length /\ o >= i)

PredictIndexIsLongestEligible(cand) ==
    \A g \in {cand[i].group_id : i \in 1..Len(cand)} :
        KeepsLongestEligible(cand, g, EligibleStarts(cand, g),
                             {j \in 1..Len(data_index) : data_index[j].group_id = g})

\* C4: in predict mode exactly one window is kept for every group with an eligible
\* start row (time_last - time + 1 <= max_prediction_length + max_encoder_length and
\* sequence_length >= min_prediction_length + min_encoder_length) and none for any
\* other group; the kept window is the eligible one with the largest sequence_length,
\* the first in row order among equal lengths.
C4_PredictKeepsLongestEligible ==
    (pc = "ready" /\ kw.predict_mode) => PredictIndexIsLongestEligible(Candidates)

\* predict mode on two series: one has no eligible start row and contributes nothing,
\* the window kept for the other does not start at its first row
C4_Witness ==
    /\ pc = "ready"
    /\ kw.predict_mode
    /\ {cell[1] : cell \in raw} = Groups
    /\ Len(data_index) = 1
    /\ data_index[1].time > data_index[1].time_first

BranchesAgree(dfi) ==
    ~has_missing_timesteps(dfi) => index_end_iterative(dfi, kw) = index_end_direct(dfi, kw)

\* C5: on a table without gaps the iterative end-pointer computation and the direct
\* arithmetic index_start + (max_time - time) - 1 give the same index_end for every
\* start row.
C5_DirectEqualsIterative ==
    pc = "ready" => BranchesAgree(df_index_rows(SortedRaw))

\* a table without gaps, of two series of different lengths, with a window of several rows
SeveralLengths(cand) ==
    \E i, j \in 1..Len(cand) :
        /\ cand[i].group_id # cand[j].group_id
        /\ cand[i].count # cand[j].count
        /\ cand[j].index_end > cand[j].index_start + 1

C5_Witness ==
    /\ pc = "ready"
    /\ ~has_missing_timesteps(df_index_rows(SortedRaw))
    /\ SeveralLengths(Candidates)

\* arguments that decide the end pointers; the other arguments at fixed values
AllKwPointer ==
    [max_encoder_length    : 0..MaxEnc,
     min_encoder_length    : {0},
     min_prediction_idx    : {0},
     min_prediction_length : {1},
     max_prediction_length : 1..MaxPred,
     predict_mode          : {FALSE},
     weight                : {"None"},
     dropout_categoricals  : {<<>>},
     add_relative_time_idx : {TRUE},
     constant_fill_strategy: {<<>>},
     randomize_length      : {FALSE}]

NextPointer == \E k \in AllKwPointer : Construct(k)

SpecPointer == Init /\ [][NextPointer]_vars

\* the last row (0-based position) of the series of start row i whose time index is
\* smaller than min(start time + max_encoder_length + max_prediction_length, time_last + 1)
LastReachableRow(df, i) ==
    LET bound == Min2(df[i].t + kw.max_encoder_length + kw.max_prediction_length,
                      df[GroupLast(df, i)].t + 1)
        rows  == {j \in i..Len(df) : df[j].g = df[i].g /\ df[j].t < bound}
    IN  (CHOOSE j \in rows : \A o \in rows : o <= j) - 1

\* a missing time step inside a series
HasMissingStep(df) == \E i \in 1..(Len(df) - 1) : df[i + 1].g = df[i].g /\ df[i + 1].t > df[i].t + 1

\* C24: for every start row of a table with gaps the index_end computed by
\* construct_index is the last row of the same group whose time index is smaller than
\* min(start_time + max_encoder_length + max_prediction_length, time_last + 1).
C24_EndPointerIsLastReachableRow ==
    (pc = "ready" /\ HasMissingStep(SortedRaw)) =>
        \A i \in 1..Len(SortedRaw) :
            index_end_of(df_index_rows(SortedRaw), kw)[i] = LastReachableRow(SortedRaw, i)

\* a table with a gap and two series: one pointer has crossed the gap and stopped before
\* the last row of its series, another one has stopped on the last row of the first series
C24_Witness ==
    /\ pc = "ready"
    /\ HasMissingStep(SortedRaw)
    /\ \E i, j \in 1..Len(Candidates) :
           /\ Candidates[i].index_end > Candidates[i].index_start
           /\ Candidates[i].sequence_length > Candidates[i].index_end - Candidates[i].index_start + 1
           /\ Candidates[i].index_end + 1 < Len(SortedRaw)
           /\ SortedRaw[Candidates[i].index_end + 2].g = SortedRaw[i].g
           /\ Candidates[j].index_end + 1 < Len(SortedRaw)
           /\ SortedRaw[Candidates[j].index_end + 2].g # SortedRaw[j].g

\* C25: the end-pointer loop, run for the largest time_last - time_first + 1 of the
\* groups, ends in a fixed point: one more pass changes the index_end of no start row.
C25_LoopEndsInFixedPoint ==
    pc = "ready" =>
        LET dfi == df_index_rows(SortedRaw)
            end == index_end_iterative(dfi, kw)
        IN  end_pointer_step(dfi, kw, end) = end

\* two series of different time spans, the shorter one first, and a pointer that has
\* moved as many rows as the loop allows for
C25_Witness ==
    /\ pc = "ready"
    /\ \E i \in 1..Len(Candidates) :
           /\ Candidates[1].count < Candidates[i].count
           /\ index_end_iterative(df_index_rows(SortedRaw), kw)[i] - Candidates[i].index_start > Candidates[1].count

====
